---------------------------- MODULE Spec2Model ----------------------------
(***************************************************************************)
(* Model of the data-access layer of the Formula 1 MCP server:             *)
(*   - the cache store and fetch gateway of F1DataService                   *)
(*     (src/src/services/f1-data.service.ts),                               *)
(*   - the per-method error policy of the data service,                     *)
(*   - the two tool dispatch paths of src/src/index.ts: the tools           *)
(*     registered on the McpServer and the HTTP JSON-RPC tools/call switch. *)
(*                                                                         *)
(* JavaScript values are modelled as tagged records (field t), strings are *)
(* real strings: URLs, error messages and JSON texts are built and         *)
(* inspected character by character as the code does.                      *)
(***************************************************************************)
EXTENDS Integers, Sequences, FiniteSets, Bags, TLC

VARIABLES
  now,        \* Date.now(), in milliseconds
  ticks,      \* number of clock advances so far (bounded)
  cache,      \* F1DataService.cache : Map<string, CacheItem>
  calls,      \* bag of the tool calls suspended at `await axios.get(url)`
  ncalls,     \* number of requests received so far (bounded)
  last,       \* what the turn of the event loop just taken did and answered
  sent,       \* number of responses sent so far
  scope,      \* the requests the callers of this behaviour send, and how many
  tokenCache,     \* OpenF1AuthService.tokenCache : CachedToken | null
  liveDataStore,  \* F1DataService.liveDataStore
  authCall,       \* the call of fetchWithAuth in progress, and what it has done
  aggregate,      \* the call of an aggregate method in progress
  stdio,          \* the process's environment, its start-up and its standard streams
  shutdown,       \* the HTTP server, the shutdown routine and the exit of the process
  mqtt            \* OpenF1StreamService, its MQTT clients and its connect() calls

\* the state of the subsystems that no tool of the shipped build reaches
dormant == <<tokenCache, liveDataStore, authCall, aggregate, stdio, shutdown, mqtt>>

vars == <<now, ticks, cache, calls, ncalls, last, sent, scope,
          tokenCache, liveDataStore, authCall, aggregate, stdio, shutdown, mqtt>>

---------------------------------------------------------------------------
(* Bounds of the model *)

MaxCalls == 1          \* requests in one behaviour of Spec
MaxGatewayCalls == 3   \* requests in one behaviour of SpecGateway
MaxEndpointCalls == 2  \* requests in one behaviour of SpecEndpoint
MaxStreamCalls == 2    \* calls of fetchWithAuth and clearCache in one behaviour of SpecStream
MaxAggregateCalls == 1 \* calls of an aggregate method in one behaviour of SpecAggregate
MaxInflight == 2       \* calls that may be suspended on upstream at once
MaxTicks == 2          \* clock advances in one behaviour
StartTime == 1         \* Date.now() when the process starts

---------------------------------------------------------------------------
(* JavaScript values *)

JUndef == [t |-> "undefined"]
JNull == [t |-> "null"]
JStr(s) == [t |-> "str", s |-> s]
JNum(n) == [t |-> "num", n |-> n]
JArr(items) == [t |-> "arr", items |-> items]
\* an object keeps its keys in insertion order, as JSON.stringify emits them
JObj(keys, vals) == [t |-> "obj", keys |-> keys, vals |-> vals]

\* ToBoolean, as applied by `if (x)`, `!x`, `x || y`
Truthy(v) ==
  CASE v.t = "undefined" -> FALSE
    [] v.t = "null" -> FALSE
    [] v.t = "str" -> v.s # ""
    [] v.t = "num" -> v.n # 0
    [] OTHER -> TRUE

\* ToString, as applied by a template literal `${x}`
ToStr(v) ==
  CASE v.t = "undefined" -> "undefined"
    [] v.t = "null" -> "null"
    [] v.t = "str" -> v.s
    [] v.t = "num" -> ToString(v.n)
    [] v.t = "arr" -> ""
    [] OTHER -> "[object Object]"

\* String.prototype.includes
Includes(s, pat) ==
  \E i \in 1..(Len(s) - Len(pat) + 1) : SubSeq(s, i, i + Len(pat) - 1) = pat

\* String.prototype.startsWith
StartsWith(s, pat) == Len(s) >= Len(pat) /\ SubSeq(s, 1, Len(pat)) = pat

IndexOfKey(keys, k) ==
  IF \E i \in 1..Len(keys) : keys[i] = k
  THEN CHOOSE i \in 1..Len(keys) : keys[i] = k
  ELSE 0

\* a thrown TypeError
TypeError(msg) == [name |-> "TypeError", code |-> "none", message |-> msg]

\* property read `v.k`: [ok, val] or [ok |-> FALSE, err] when v is null/undefined
Prop(v, k) ==
  IF v.t \in {"undefined", "null"}
  THEN [ok |-> FALSE,
        err |-> TypeError("Cannot read properties of " \o v.t \o " (reading '" \o k \o "')")]
  ELSE IF v.t = "obj" /\ IndexOfKey(v.keys, k) # 0
       THEN [ok |-> TRUE, val |-> v.vals[IndexOfKey(v.keys, k)]]
       ELSE IF k = "length" /\ v.t = "arr" THEN [ok |-> TRUE, val |-> JNum(Len(v.items))]
       ELSE IF k = "length" /\ v.t = "str" THEN [ok |-> TRUE, val |-> JNum(Len(v.s))]
       ELSE [ok |-> TRUE, val |-> JUndef]

\* element read `v[0]`
First(v) ==
  IF v.t \in {"undefined", "null"}
  THEN [ok |-> FALSE,
        err |-> TypeError("Cannot read properties of " \o v.t \o " (reading '0')")]
  ELSE IF v.t = "arr" /\ Len(v.items) > 0 THEN [ok |-> TRUE, val |-> v.items[1]]
       ELSE IF v.t = "str" /\ Len(v.s) > 0 THEN [ok |-> TRUE, val |-> JStr(SubSeq(v.s, 1, 1))]
       ELSE [ok |-> TRUE, val |-> JUndef]

\* chained read `v.k1.k2.k3`
RECURSIVE Path(_, _)
Path(v, ks) ==
  IF ks = <<>> THEN [ok |-> TRUE, val |-> v]
  ELSE LET p == Prop(v, Head(ks))
       IN IF p.ok THEN Path(p.val, Tail(ks)) ELSE p

\* optional chain `v?.k1?.k2?.[0]`: undefined as soon as a link is null/undefined
RECURSIVE OptPath(_, _)
OptPath(v, ks) ==
  IF v.t \in {"undefined", "null"} THEN JUndef
  ELSE IF ks = <<>> THEN v
       ELSE OptPath(Prop(v, Head(ks)).val, Tail(ks))


---------------------------------------------------------------------------
(* JSON.stringify(value, null, gap) and JSON.parse *)

Digits == {"0", "1", "2", "3", "4", "5", "6", "7", "8", "9"}

EscapeChar(c) ==
  IF c = "\"" THEN "\\\"" ELSE IF c = "\\" THEN "\\\\" ELSE IF c = "\n" THEN "\\n" ELSE c

RECURSIVE Escape(_)
\* character by character (the string is halved to keep the recursion shallow)
Escape(s) ==
  IF \A i \in 1..Len(s) : SubSeq(s, i, i) \notin {"\"", "\\", "\n"} THEN s
  ELSE IF Len(s) <= 1 THEN EscapeChar(s)
  ELSE Escape(SubSeq(s, 1, Len(s) \div 2)) \o Escape(SubSeq(s, Len(s) \div 2 + 1, Len(s)))

Quote(s) == "\"" \o Escape(s) \o "\""

RECURSIVE Join(_, _)
Join(parts, sep) ==
  IF parts = <<>> THEN ""
  ELSE IF Len(parts) = 1 THEN parts[1]
       ELSE parts[1] \o sep \o Join(Tail(parts), sep)

RECURSIVE Str(_, _, _)
\* the text of a value other than undefined; gap is "" (compact) or the indent unit
Str(v, gap, cur) ==
  LET ind == cur \o gap
      open(b) == IF gap = "" THEN b ELSE b \o "\n" \o ind
      sep == IF gap = "" THEN "," ELSE ",\n" \o ind
      close(b) == IF gap = "" THEN b ELSE "\n" \o cur \o b
      colon == IF gap = "" THEN ":" ELSE ": "
  IN CASE v.t = "null" -> "null"
       [] v.t = "undefined" -> "null"    \* an undefined array element
       [] v.t = "num" -> ToString(v.n)
       [] v.t = "str" -> Quote(v.s)
       [] v.t = "arr" ->
            IF v.items = <<>> THEN "[]"
            ELSE open("[")
                 \o Join([i \in 1..Len(v.items) |-> Str(v.items[i], gap, ind)], sep)
                 \o close("]")
       [] v.t = "obj" ->
            LET kept == SelectSeq([i \in 1..Len(v.keys) |-> i],
                                  LAMBDA i : v.vals[i].t # "undefined")
            IN IF kept = <<>> THEN "{}"
               ELSE open("{")
                    \o Join([j \in 1..Len(kept) |->
                               Quote(v.keys[kept[j]]) \o colon
                               \o Str(v.vals[kept[j]], gap, ind)], sep)
                    \o close("}")

\* JSON.stringify(v): a string, or undefined when v is undefined
JSONstringify(v) == IF v.t = "undefined" THEN JUndef ELSE JStr(Str(v, "", ""))

\* JSON.stringify(v, null, 2)
JSONstringify2(v) == IF v.t = "undefined" THEN JUndef ELSE JStr(Str(v, "  ", ""))

Ch(s, i) == IF i >= 1 /\ i <= Len(s) THEN SubSeq(s, i, i) ELSE ""

RECURSIVE SkipWs(_, _)
SkipWs(s, i) == IF Ch(s, i) \in {" ", "\n", "\t", "\r"} THEN SkipWs(s, i + 1) ELSE i

RECURSIVE SkipDigits(_, _)
SkipDigits(s, i) == IF Ch(s, i) \in Digits THEN SkipDigits(s, i + 1) ELSE i

RECURSIVE BackslashRun(_, _, _)
\* the number of consecutive backslashes that end at index k, not below index i
BackslashRun(s, k, i) ==
  IF k >= i /\ Ch(s, k) = "\\" THEN 1 + BackslashRun(s, k - 1, i) ELSE 0

\* i is just after the opening quote; the index after the closing quote, or 0
ParseString(s, i) ==
  LET closing == {j \in i..Len(s) : Ch(s, j) = "\"" /\ BackslashRun(s, j - 1, i) % 2 = 0}
      end == CHOOSE j \in closing : \A k \in closing : j <= k
  IN IF closing = {} THEN 0
     ELSE IF \A k \in i..(end - 1) :
               /\ Ch(s, k) # "\n"
               /\ (Ch(s, k) = "\\" /\ BackslashRun(s, k - 1, i) % 2 = 0)
                    => Ch(s, k + 1) \in {"\"", "\\", "/", "b", "f", "n", "r", "t"}
          THEN end + 1
          ELSE 0

ParseNumber(s, i) ==
  LET a == IF Ch(s, i) = "-" THEN i + 1 ELSE i
      b == SkipDigits(s, a)
  IN IF b = a THEN 0
     ELSE IF Ch(s, a) = "0" /\ b > a + 1 THEN 0
     ELSE IF Ch(s, b) = "."
          THEN LET c == SkipDigits(s, b + 1) IN IF c = b + 1 THEN 0 ELSE c
          ELSE b

RECURSIVE ParseValue(_, _)
RECURSIVE ParseElements(_, _)
RECURSIVE ParseMembers(_, _)

\* i is at the first character of a value; the index after it, or 0
ParseValue(s, i) ==
  LET c == Ch(s, i)
  IN CASE c = "n" -> IF StartsWith(SubSeq(s, i, Len(s)), "null") THEN i + 4 ELSE 0
       [] c = "t" -> IF StartsWith(SubSeq(s, i, Len(s)), "true") THEN i + 4 ELSE 0
       [] c = "f" -> IF StartsWith(SubSeq(s, i, Len(s)), "false") THEN i + 5 ELSE 0
       [] c = "\"" -> ParseString(s, i + 1)
       [] c = "[" ->
            LET j == SkipWs(s, i + 1)
            IN IF Ch(s, j) = "]" THEN j + 1 ELSE ParseElements(s, j)
       [] c = "{" ->
            LET j == SkipWs(s, i + 1)
            IN IF Ch(s, j) = "}" THEN j + 1 ELSE ParseMembers(s, j)
       [] c = "-" \/ c \in Digits -> ParseNumber(s, i)
       [] OTHER -> 0

\* i is at an array element; the index after the closing bracket, or 0
ParseElements(s, i) ==
  LET j == ParseValue(s, i)
      k == SkipWs(s, j)
  IN IF j = 0 THEN 0
     ELSE IF Ch(s, k) = "]" THEN k + 1
     ELSE IF Ch(s, k) = "," THEN ParseElements(s, SkipWs(s, k + 1))
     ELSE 0

\* i is at a member's key; the index after the closing brace, or 0
ParseMembers(s, i) ==
  LET j == IF Ch(s, i) = "\"" THEN ParseString(s, i + 1) ELSE 0
      k == SkipWs(s, j)
      v == IF j # 0 /\ Ch(s, k) = ":" THEN ParseValue(s, SkipWs(s, k + 1)) ELSE 0
      e == SkipWs(s, v)
  IN IF v = 0 THEN 0
     ELSE IF Ch(s, e) = "}" THEN e + 1
     ELSE IF Ch(s, e) = "," THEN ParseMembers(s, SkipWs(s, e + 1))
     ELSE 0

\* JSON.parse(s) does not throw
JSONparses(s) ==
  LET j == ParseValue(s, SkipWs(s, 1))
  IN j # 0 /\ SkipWs(s, j) = Len(s) + 1

---------------------------------------------------------------------------
(* Cache store: F1DataService.cache and its helpers *)

OPENF1_BASE_URL == "https://api.openf1.org/v1"
FASTF1_BASE_URL == "https://api.jolpi.ca/ergast/f1"

defaultCacheTTL == 5 * 60 * 1000
liveCacheTTL == 10 * 1000

EmptyMap == [k \in {} |-> JNull]

MapSet(m, key, item) ==
  [k \in (DOMAIN m) \cup {key} |-> IF k = key THEN item ELSE m[k]]

MapDelete(m, key) == [k \in (DOMAIN m) \ {key} |-> m[k]]

\* (a faulty variant of getCachedData: a read that meets a live entry renews it)
getCachedData_renews(m, key, t) ==
  IF key \notin DOMAIN m
  THEN [data |-> JNull, cache |-> m]
  ELSE IF t > m[key].expiresAt
       THEN [data |-> JNull, cache |-> MapDelete(m, key)]
       ELSE [data |-> m[key].data,
             cache |-> MapSet(m, key, [data |-> m[key].data,
                                       expiresAt |-> t + defaultCacheTTL])]

\* getCachedData(key) at time t: the value returned (null for a miss) and the map
\* it leaves behind
getCachedData(m, key, t) ==
  IF key \notin DOMAIN m
  THEN [data |-> JNull, cache |-> m]
  ELSE IF t > m[key].expiresAt
       THEN [data |-> JNull, cache |-> MapDelete(m, key)]
       ELSE [data |-> m[key].data, cache |-> m]

\* setCachedData(key, data, ttl) at time t; ttl undefined takes the default
\* (a faulty variant of setCachedData: an entry already stored is kept)
setCachedData_keepsFirst(m, key, data, ttl, t) ==
  IF key \in DOMAIN m THEN m
  ELSE MapSet(m, key, [data |-> data,
                       expiresAt |-> t + (IF ttl.t = "undefined" THEN defaultCacheTTL
                                          ELSE ttl.n)])

setCachedData(m, key, data, ttl, t) ==
  MapSet(m, key, [data |-> data,
                  expiresAt |-> t + (IF ttl.t = "undefined" THEN defaultCacheTTL ELSE ttl.n)])

\* a faulty variant of clearCache: the entries stay
clearCache_keepsEntries(m) == m

\* clearCache()
clearCache(m) == EmptyMap

---------------------------------------------------------------------------
(* Fetch gateway: fetchWithErrorHandling, split at `await axios.get(url)` *)

McpError(code, message) == [name |-> "McpError", code |-> code, message |-> message]
PlainError(message) == [name |-> "Error", code |-> "none", message |-> message]

Ok(v) == [ok |-> TRUE, data |-> v]
Fail(e) == [ok |-> FALSE, err |-> e]

\* an upstream answer: a 2xx with a body, or a failure whose error.response?.status
\* is a number, or undefined when no response arrived
Answer(body) == [ok |-> TRUE, body |-> body]
Failure(status) == [ok |-> FALSE, status |-> status]

\* up to the await: a hit returns the cached value, a miss issues the GET
fetchWithErrorHandling_begin(m, url, useCache, t) ==
  LET r == getCachedData(m, url, t)
  IN IF useCache
     THEN IF Truthy(r.data)
          THEN [hit |-> TRUE, data |-> r.data, cache |-> r.cache]
          ELSE [hit |-> FALSE, data |-> JNull, cache |-> r.cache]
     ELSE [hit |-> FALSE, data |-> JNull, cache |-> m]

\* after the await: cache and return the body, or throw the McpError
\* (a faulty variant of fetchWithErrorHandling_end: a failed GET drops the entry)
fetchWithErrorHandling_end_evicts(m, url, errorMessage, useCache, cacheTTL, resp, t) ==
  IF resp.ok
  THEN [result |-> Ok(resp.body),
        cache |-> IF useCache THEN setCachedData(m, url, resp.body, cacheTTL, t) ELSE m]
  ELSE [result |-> Fail(McpError("InternalError", errorMessage \o ": 0")),
        cache |-> MapDelete(m, url)]

fetchWithErrorHandling_end(m, url, errorMessage, useCache, cacheTTL, resp, t) ==
  IF resp.ok
  THEN [result |-> Ok(resp.body),
        cache |-> IF useCache THEN setCachedData(m, url, resp.body, cacheTTL, t) ELSE m]
  ELSE LET statusCode == IF Truthy(resp.status) THEN resp.status ELSE JNum(0)
       IN [result |-> Fail(McpError("InternalError",
                                    errorMessage \o ": " \o ToStr(statusCode))),
           cache |-> m]

---------------------------------------------------------------------------
(* Data service methods.  X_request is the method up to its await: the      *)
(* request it makes, or the outcome it settles with at once.  X is the rest *)
(* of the method, applied to what the awaited call produced.                *)

Resolve(v) == [kind |-> "resolve", value |-> v]
Reject(e) == [kind |-> "reject", err |-> e]

\* this.fetchWithErrorHandling(url, errorMessage, true, cacheTTL)
Fetch(url, errorMessage, cacheTTL) ==
  [kind |-> "fetch", url |-> url, errorMessage |-> errorMessage,
   useCache |-> TRUE, cacheTTL |-> cacheTTL]
\* axios.get(url) called by the method itself
Direct(url) == [kind |-> "axios", url |-> url]
Settled(outcome) == [kind |-> "settled", outcome |-> outcome]

\* `return data.a.b.c` / `return data.a.b.c[0]` on the gateway's result
Unwrap(g, ks, first) ==
  IF ~g.ok THEN Reject(g.err)
  ELSE LET p == Path(g.data, ks)
       IN IF ~p.ok THEN Reject(p.err)
          ELSE IF first
               THEN LET f == First(p.val)
                    IN IF f.ok THEN Resolve(f.val) ELSE Reject(f.err)
               ELSE Resolve(p.val)

\* catch (error) { if (error.message && (error.message.includes(p) || ...)) return v; throw error }
CatchIncludes(outcome, pats, v) ==
  IF outcome.kind = "reject" /\ outcome.err.message # ""
     /\ \E p \in pats : Includes(outcome.err.message, p)
  THEN Resolve(v)
  ELSE outcome

Passed(g) == IF g.ok THEN Resolve(g.data) ELSE Reject(g.err)

\* URLSearchParams serialisation of one value (space becomes +; the values the
\* model passes hold no other reserved character)
RECURSIVE FormEncode(_)
FormEncode(s) ==
  IF Len(s) <= 1 THEN (IF s = " " THEN "+" ELSE s)
  ELSE FormEncode(SubSeq(s, 1, Len(s) \div 2))
       \o FormEncode(SubSeq(s, Len(s) \div 2 + 1, Len(s)))

SessionFilterNames ==
  <<"year", "circuit_short_name", "session_name", "country_name", "location">>

getHistoricalSessions_request(filters) ==
  LET given == SelectSeq(SessionFilterNames, LAMBDA f : Truthy(filters[f]))
      queryString == Join([i \in 1..Len(given) |->
                             given[i] \o "=" \o FormEncode(ToStr(filters[given[i]]))], "&")
      url == OPENF1_BASE_URL \o "/sessions"
             \o (IF queryString # "" THEN "?" \o queryString ELSE "")
  IN Fetch(url, "Failed to fetch historical sessions", JNum(defaultCacheTTL))

getHistoricalSessions(g) == IF g.ok THEN Resolve(g.data) ELSE Resolve(JArr(<<>>))

\* openf1Stream.isActive() && liveDataStore.positions.size > 0 never holds: the
\* service subscribes no stream handler, so the live store stays empty
getLiveTimingData_request ==
  Fetch(OPENF1_BASE_URL \o "/live_timing", "Failed to fetch live timing data",
        JNum(liveCacheTTL))

getLiveTimingData(g) == CatchIncludes(Passed(g), {"422"}, JArr(<<>>))

getLiveCarData_request ==
  Fetch(OPENF1_BASE_URL \o "/car_data", "Failed to fetch car data", JNum(liveCacheTTL))

getLiveCarData(g) == CatchIncludes(Passed(g), {"422"}, JArr(<<>>))

getLivePositions_request ==
  Fetch(OPENF1_BASE_URL \o "/position", "Failed to fetch position data", JNum(liveCacheTTL))

\* a faulty variant of getLivePositions: a failure without a status also yields []
getLivePositions_swallowsNoStatus(g) == CatchIncludes(Passed(g), {"422", ": 0"}, JArr(<<>>))

getLivePositions(g) == CatchIncludes(Passed(g), {"422"}, JArr(<<>>))

getLiveRaceControl_request ==
  Fetch(OPENF1_BASE_URL \o "/race_control", "Failed to fetch race control data",
        JNum(liveCacheTTL))

getLiveRaceControl(g) == CatchIncludes(Passed(g), {"422"}, JArr(<<>>))

getLiveTeamRadio_request ==
  Fetch(OPENF1_BASE_URL \o "/team_radio", "Failed to fetch team radio data",
        JNum(liveCacheTTL))

getLiveTeamRadio(g) == CatchIncludes(Passed(g), {"422"}, JArr(<<>>))

getLiveWeather_request ==
  Fetch(OPENF1_BASE_URL \o "/weather", "Failed to fetch weather data", JNum(liveCacheTTL))

\* a faulty variant of getLiveWeather: the catch block rethrows every error
getLiveWeather_rethrows(g) ==
  IF ~g.ok THEN Reject(g.err)
  ELSE LET len == Prop(g.data, "length")
       IN IF ~len.ok THEN Reject(len.err)
          ELSE IF len.val.t = "num" /\ len.val.n > 0
               THEN Resolve(First(g.data).val)
               ELSE Resolve(JNull)

getLiveWeather(g) ==
  LET len == Prop(g.data, "length")
      body == IF ~g.ok THEN Reject(g.err)
              ELSE IF ~len.ok THEN Reject(len.err)
              ELSE IF len.val.t = "num" /\ len.val.n > 0
                   THEN Resolve(First(g.data).val)
                   ELSE Resolve(JNull)
  IN CatchIncludes(body, {"422"}, JNull)

getCurrentSessionStatus_request ==
  Fetch(OPENF1_BASE_URL \o "/session_status", "Failed to fetch session status",
        JNum(liveCacheTTL))

getCurrentSessionStatus(g) == CatchIncludes(Passed(g), {"422", "404"}, JObj(<<>>, <<>>))

getHistoricRaceResults_request(year, round) ==
  Fetch(FASTF1_BASE_URL \o "/" \o ToStr(year) \o "/" \o ToStr(round) \o "/results.json",
        "Failed to fetch historic race results", JUndef)

\* a faulty variant of getHistoricRaceResults: the list of races is returned
getHistoricRaceResults_list(g) == Unwrap(g, <<"MRData", "RaceTable", "Races">>, FALSE)

getHistoricRaceResults(g) == Unwrap(g, <<"MRData", "RaceTable", "Races">>, TRUE)

getDriverStandings_request(year) ==
  Fetch(FASTF1_BASE_URL \o "/" \o ToStr(year) \o "/driverStandings.json",
        "Failed to fetch driver standings", JUndef)

getDriverStandings(g) == Unwrap(g, <<"MRData", "StandingsTable", "StandingsLists">>, TRUE)

getConstructorStandings_request(year) ==
  Fetch(FASTF1_BASE_URL \o "/" \o ToStr(year) \o "/constructorStandings.json",
        "Failed to fetch constructor standings", JUndef)

getConstructorStandings(g) ==
  Unwrap(g, <<"MRData", "StandingsTable", "StandingsLists">>, TRUE)

getDriverInfo_request(driverId) ==
  Fetch(FASTF1_BASE_URL \o "/drivers/" \o ToStr(driverId) \o ".json",
        "Failed to fetch driver info", JUndef)

getDriverInfo(g) ==
  IF ~g.ok THEN Resolve(JNull)
  ELSE LET drivers == OptPath(g.data, <<"MRData", "DriverTable", "Drivers">>)
           d0 == IF drivers.t \in {"undefined", "null"} THEN JUndef ELSE First(drivers).val
       IN IF ~Truthy(d0) THEN Resolve(JNull) ELSE Resolve(d0)

getLapTimes_request(year, round, driverId) ==
  Fetch(FASTF1_BASE_URL \o "/" \o ToStr(year) \o "/" \o ToStr(round) \o "/drivers/"
          \o ToStr(driverId) \o "/laps.json",
        "Failed to fetch lap times", JUndef)

getLapTimes(g) == Unwrap(g, <<"MRData", "RaceTable", "Races">>, TRUE)

\* a faulty variant of getWeatherData_request: no TTL is passed to the gateway
getWeatherData_request_defaultTTL(sessionKey) ==
  Fetch(IF Truthy(sessionKey)
        THEN OPENF1_BASE_URL \o "/weather?session_key=" \o ToStr(sessionKey)
        ELSE OPENF1_BASE_URL \o "/weather",
        "Failed to fetch weather data", JUndef)

getWeatherData_request(sessionKey) ==
  Fetch(IF Truthy(sessionKey)
        THEN OPENF1_BASE_URL \o "/weather?session_key=" \o ToStr(sessionKey)
        ELSE OPENF1_BASE_URL \o "/weather",
        "Failed to fetch weather data", JNum(liveCacheTTL))

getWeatherData(g) == CatchIncludes(Passed(g), {"422", "404"}, JArr(<<>>))

\* a faulty variant of getCarData_request: only an absent key is refused, an empty
\* one passes
getCarData_request_absentOnly(driverNumber, sessionKey, filters) ==
  IF sessionKey.t = "undefined"
  THEN Settled(Reject(McpError("InvalidRequest",
         "session_key is required for car telemetry data. Car data is too granular without filtering.")))
  ELSE Fetch(OPENF1_BASE_URL \o "/car_data?driver_number=" \o ToStr(driverNumber)
               \o "&session_key=" \o ToStr(sessionKey)
               \o (IF ~Truthy(filters) THEN "&speed>=0" ELSE "&" \o ToStr(filters)),
             "Failed to fetch car telemetry data", JNum(liveCacheTTL))

\* a faulty variant of getCarData_request: the default filter is appended to every
\* request, before the caller's filters
getCarData_request_alwaysDefault(driverNumber, sessionKey, filters) ==
  IF ~Truthy(sessionKey)
  THEN Settled(Reject(McpError("InvalidRequest",
         "session_key is required for car telemetry data. Car data is too granular without filtering.")))
  ELSE Fetch(OPENF1_BASE_URL \o "/car_data?driver_number=" \o ToStr(driverNumber)
               \o "&session_key=" \o ToStr(sessionKey) \o "&speed>=0"
               \o (IF ~Truthy(filters) THEN "" ELSE "&" \o ToStr(filters)),
             "Failed to fetch car telemetry data", JNum(liveCacheTTL))

getCarData_request(driverNumber, sessionKey, filters) ==
  IF ~Truthy(sessionKey)
  THEN Settled(Reject(McpError("InvalidRequest",
         "session_key is required for car telemetry data. Car data is too granular without filtering.")))
  ELSE Fetch(OPENF1_BASE_URL \o "/car_data?driver_number=" \o ToStr(driverNumber)
               \o "&session_key=" \o ToStr(sessionKey)
               \o (IF ~Truthy(filters) THEN "&speed>=0" ELSE "&" \o ToStr(filters)),
             "Failed to fetch car telemetry data", JNum(liveCacheTTL))

getCarData(g) == CatchIncludes(Passed(g), {"422", "404", "Too much data"}, JArr(<<>>))

getPitStopData_request(sessionKey, driverNumber) ==
  Fetch(OPENF1_BASE_URL \o "/pit"
          \o (IF Truthy(sessionKey)
              THEN "?session_key=" \o ToStr(sessionKey)
                   \o (IF Truthy(driverNumber)
                       THEN "&driver_number=" \o ToStr(driverNumber) ELSE "")
              ELSE IF Truthy(driverNumber)
                   THEN "?driver_number=" \o ToStr(driverNumber) ELSE ""),
        "Failed to fetch pit stop data", JUndef)

getPitStopData(g) == CatchIncludes(Passed(g), {"422", "404"}, JArr(<<>>))

getTeamRadio_request(sessionKey, driverNumber) ==
  IF ~Truthy(sessionKey) THEN Settled(Resolve(JArr(<<>>)))
  ELSE Direct("https://api.openf1.org/v1/team_radio?session_key=" \o ToStr(sessionKey)
              \o (IF Truthy(driverNumber)
                  THEN "&driver_number=" \o ToStr(driverNumber) ELSE ""))

\* resp is the answer to the method's own axios.get
\* (a faulty variant of getTeamRadio: only 422, 404 and 429 yield the empty array)
getTeamRadio_rethrows(resp) ==
  IF ~resp.ok
  THEN IF resp.status \in {JNum(422), JNum(404), JNum(429)} THEN Resolve(JArr(<<>>))
       ELSE Reject(PlainError("Failed to fetch team radio"))
  ELSE IF ~Truthy(resp.body) \/ Prop(resp.body, "length").val = JNum(0)
       THEN Resolve(JArr(<<>>))
       ELSE Resolve(resp.body)

getTeamRadio(resp) ==
  IF ~resp.ok THEN Resolve(JArr(<<>>))
  ELSE IF ~Truthy(resp.body) \/ Prop(resp.body, "length").val = JNum(0)
       THEN Resolve(JArr(<<>>))
       ELSE Resolve(resp.body)

getRaceControlMessages_request(sessionKey) ==
  Direct("https://api.openf1.org/v1/race_control?session_key=" \o ToStr(sessionKey))

getRaceControlMessages(resp) ==
  IF resp.ok THEN Resolve(resp.body)
  ELSE IF resp.status \in {JNum(422), JNum(404)} THEN Resolve(JArr(<<>>))
       ELSE Reject(PlainError("Failed to fetch race control messages"))

getRaceCalendar_request(year) ==
  Fetch(FASTF1_BASE_URL \o "/" \o ToStr(year) \o ".json",
        "Failed to fetch race calendar", JUndef)

getRaceCalendar(g) == Unwrap(g, <<"MRData", "RaceTable", "Races">>, FALSE)

getCircuitInfo_request(circuitId) ==
  Fetch(FASTF1_BASE_URL \o "/circuits/" \o ToStr(circuitId) \o ".json",
        "Failed to fetch circuit information", JUndef)

getCircuitInfo(g) == Unwrap(g, <<"MRData", "CircuitTable", "Circuits">>, TRUE)

\* limit: number = 100
getSeasonList_request(limit) ==
  Fetch(FASTF1_BASE_URL \o "/seasons.json?limit="
          \o ToStr(IF limit.t = "undefined" THEN JNum(100) ELSE limit),
        "Failed to fetch season list", JUndef)

getSeasonList(g) == Unwrap(g, <<"MRData", "SeasonTable", "Seasons">>, FALSE)

getQualifyingResults_request(year, round) ==
  Fetch(FASTF1_BASE_URL \o "/" \o ToStr(year) \o "/" \o ToStr(round) \o "/qualifying.json",
        "Failed to fetch qualifying results", JUndef)

getQualifyingResults(g) == Unwrap(g, <<"MRData", "RaceTable", "Races">>, TRUE)

getDriverInformation_request(driverId) ==
  Fetch(FASTF1_BASE_URL \o "/drivers/" \o ToStr(driverId) \o ".json",
        "Failed to fetch driver information", JUndef)

getDriverInformation(g) ==
  IF ~g.ok THEN Reject(g.err)
  ELSE LET drivers == OptPath(g.data, <<"MRData", "DriverTable", "Drivers">>)
           d0 == IF drivers.t \in {"undefined", "null"} THEN JUndef ELSE First(drivers).val
       IN IF ~Truthy(d0)
          THEN Reject(McpError("InternalError", "Driver information not found"))
          ELSE Resolve(d0)

getConstructorInformation_request(constructorId) ==
  Fetch(FASTF1_BASE_URL \o "/constructors/" \o ToStr(constructorId) \o ".json",
        "Failed to fetch constructor information", JUndef)

getConstructorInformation(g) ==
  Unwrap(g, <<"MRData", "ConstructorTable", "Constructors">>, TRUE)

---------------------------------------------------------------------------
(* Binding of a tool name to its service method *)

ArgNames ==
  {"year", "round", "driverId", "sessionKey", "driverNumber", "filters", "circuitId",
   "constructorId", "limit", "circuit_short_name", "session_name", "country_name",
   "location"}

\* f1Service.<name>(...) up to its await, with the arguments the handlers pass
ServiceRequest(name, a) ==
  CASE name = "getLiveTimingData" -> getLiveTimingData_request
    [] name = "getCurrentSessionStatus" -> getCurrentSessionStatus_request
    [] name = "getDriverInfo" -> getDriverInfo_request(a.driverId)
    [] name = "getHistoricalSessions" -> getHistoricalSessions_request(a)
    [] name = "getHistoricRaceResults" -> getHistoricRaceResults_request(a.year, a.round)
    [] name = "getDriverStandings" -> getDriverStandings_request(a.year)
    [] name = "getConstructorStandings" -> getConstructorStandings_request(a.year)
    [] name = "getLapTimes" -> getLapTimes_request(a.year, a.round, a.driverId)
    [] name = "getWeatherData" -> getWeatherData_request(a.sessionKey)
    [] name = "getCarData" -> getCarData_request(a.driverNumber, a.sessionKey, a.filters)
    [] name = "getPitStopData" -> getPitStopData_request(a.sessionKey, a.driverNumber)
    [] name = "getTeamRadio" -> getTeamRadio_request(a.sessionKey, a.driverNumber)
    [] name = "getRaceControlMessages" -> getRaceControlMessages_request(a.sessionKey)
    [] name = "getRaceCalendar" -> getRaceCalendar_request(a.year)
    [] name = "getCircuitInfo" -> getCircuitInfo_request(a.circuitId)
    [] name = "getSeasonList" -> getSeasonList_request(a.limit)
    [] name = "getQualifyingResults" -> getQualifyingResults_request(a.year, a.round)
    [] name = "getDriverInformation" -> getDriverInformation_request(a.driverId)
    [] name = "getConstructorInformation" -> getConstructorInformation_request(a.constructorId)
    [] name = "getLiveCarData" -> getLiveCarData_request
    [] name = "getLivePositions" -> getLivePositions_request
    [] name = "getLiveRaceControl" -> getLiveRaceControl_request
    [] name = "getLiveTeamRadio" -> getLiveTeamRadio_request
    [] name = "getLiveWeather" -> getLiveWeather_request

\* the rest of f1Service.<name>(...) once its awaited call has produced x
ServiceResult(name, x) ==
  CASE name = "getLiveTimingData" -> getLiveTimingData(x)
    [] name = "getCurrentSessionStatus" -> getCurrentSessionStatus(x)
    [] name = "getDriverInfo" -> getDriverInfo(x)
    [] name = "getHistoricalSessions" -> getHistoricalSessions(x)
    [] name = "getHistoricRaceResults" -> getHistoricRaceResults(x)
    [] name = "getDriverStandings" -> getDriverStandings(x)
    [] name = "getConstructorStandings" -> getConstructorStandings(x)
    [] name = "getLapTimes" -> getLapTimes(x)
    [] name = "getWeatherData" -> getWeatherData(x)
    [] name = "getCarData" -> getCarData(x)
    [] name = "getPitStopData" -> getPitStopData(x)
    [] name = "getTeamRadio" -> getTeamRadio(x)
    [] name = "getRaceControlMessages" -> getRaceControlMessages(x)
    [] name = "getRaceCalendar" -> getRaceCalendar(x)
    [] name = "getCircuitInfo" -> getCircuitInfo(x)
    [] name = "getSeasonList" -> getSeasonList(x)
    [] name = "getQualifyingResults" -> getQualifyingResults(x)
    [] name = "getDriverInformation" -> getDriverInformation(x)
    [] name = "getConstructorInformation" -> getConstructorInformation(x)
    [] name = "getLiveCarData" -> getLiveCarData(x)
    [] name = "getLivePositions" -> getLivePositions(x)
    [] name = "getLiveRaceControl" -> getLiveRaceControl(x)
    [] name = "getLiveTeamRadio" -> getLiveTeamRadio(x)
    [] name = "getLiveWeather" -> getLiveWeather(x)

---------------------------------------------------------------------------
(* Tool responses *)

TextBlock(text) == [type |-> "text", text |-> text]

\* a tool result { content, isError? }
Result(content, isError) ==
  [kind |-> "result", isError |-> isError, content |-> content, code |-> 0, message |-> ""]

\* a JSON-RPC error { code, message }
ErrorResponse(code, message) ==
  [kind |-> "error", isError |-> TRUE, content |-> <<>>, code |-> code, message |-> message]

Returned(content) == [threw |-> FALSE, content |-> content]
Threw(e) == [threw |-> TRUE, err |-> e]

Message(text) == JObj(<<"message">>, <<JStr(text)>>)

\* { content: [{ type: "text", text: JSON.stringify(data) }] }
Stringified(data) == Returned(<<TextBlock(JSONstringify(data))>>)

formatMCPResponse(data, context) ==
  IF data.t \in {"null", "undefined"}
  THEN Stringified(JObj(<<"message", "context">>,
                        <<JStr("No data available"),
                          IF Truthy(context) THEN context ELSE JStr("unknown")>>))
  ELSE IF data.t = "arr" /\ Len(data.items) = 0
  THEN Stringified(JObj(<<"message", "context", "suggestion">>,
         <<JStr("No data available"),
           IF Truthy(context) THEN context ELSE JStr("query returned empty results"),
           IF context.t = "str" /\ Includes(context.s, "live")
           THEN JStr("Live data is only available during active F1 sessions. Use historical data tools instead.")
           ELSE JStr("Try adjusting your query parameters or check data availability.")>>))
  ELSE Returned(<<TextBlock(IF data.t = "str" THEN data ELSE JSONstringify2(data))>>)

---------------------------------------------------------------------------
(* Dispatch path 1: the tools registered on the McpServer (registerAllTools) *)

registerAllTools ==
  <<"getLiveTimingData", "getCurrentSessionStatus", "getDriverInfo",
    "getHistoricalSessions", "getHistoricRaceResults", "getDriverStandings",
    "getConstructorStandings", "getLapTimes", "getWeatherData", "getCarData",
    "getPitStopData", "getTeamRadio", "getRaceControlMessages", "getRaceCalendar",
    "getCircuitInfo", "getSeasonList", "getQualifyingResults", "getDriverInformation",
    "getConstructorInformation", "clearCache", "getLiveCarData", "getLivePositions",
    "getLiveRaceControl", "getLiveTeamRadio", "getLiveWeather">>

Range(seq) == {seq[i] : i \in 1..Len(seq)}

\* the zod shape of a tool: <<parameter, type, required>>
ParamSchema(name) ==
  CASE name = "getDriverInfo" -> {<<"driverId", "str", TRUE>>}
    [] name = "getHistoricalSessions" ->
         {<<"year", "num", FALSE>>, <<"circuit_short_name", "str", FALSE>>,
          <<"session_name", "str", FALSE>>, <<"country_name", "str", FALSE>>,
          <<"location", "str", FALSE>>}
    [] name = "getHistoricRaceResults" -> {<<"year", "num", TRUE>>, <<"round", "num", TRUE>>}
    [] name = "getDriverStandings" -> {<<"year", "num", TRUE>>}
    [] name = "getConstructorStandings" -> {<<"year", "num", TRUE>>}
    [] name = "getLapTimes" ->
         {<<"year", "num", TRUE>>, <<"round", "num", TRUE>>, <<"driverId", "str", TRUE>>}
    [] name = "getWeatherData" -> {<<"sessionKey", "str", TRUE>>}
    [] name = "getCarData" ->
         {<<"driverNumber", "str", TRUE>>, <<"sessionKey", "str", TRUE>>,
          <<"filters", "str", FALSE>>}
    [] name = "getPitStopData" ->
         {<<"sessionKey", "str", FALSE>>, <<"driverNumber", "str", FALSE>>}
    [] name = "getTeamRadio" ->
         {<<"sessionKey", "str", TRUE>>, <<"driverNumber", "str", FALSE>>}
    [] name = "getRaceControlMessages" -> {<<"sessionKey", "str", TRUE>>}
    [] name = "getRaceCalendar" -> {<<"year", "num", TRUE>>}
    [] name = "getCircuitInfo" -> {<<"circuitId", "str", TRUE>>}
    [] name = "getSeasonList" -> {<<"limit", "num", FALSE>>}
    [] name = "getQualifyingResults" -> {<<"year", "num", TRUE>>, <<"round", "num", TRUE>>}
    [] name = "getDriverInformation" -> {<<"driverId", "str", TRUE>>}
    [] name = "getConstructorInformation" -> {<<"constructorId", "str", TRUE>>}
    [] OTHER -> {}

\* McpServer looks the tool up and parses the arguments against its shape before
\* it runs the handler: the handler sees the declared parameters only
McpServerAccept(name, a) ==
  IF name \notin Range(registerAllTools)
  THEN [ok |-> FALSE, resp |-> ErrorResponse(-32602, "Tool " \o name \o " not found")]
  ELSE IF \E p \in ParamSchema(name) :
            ~(a[p[1]].t = p[2] \/ (~p[3] /\ a[p[1]].t = "undefined"))
  THEN [ok |-> FALSE,
        resp |-> ErrorResponse(-32602, "Invalid arguments for tool " \o name)]
  ELSE [ok |-> TRUE,
        args |-> [f \in ArgNames |->
                    IF \E p \in ParamSchema(name) : p[1] = f THEN a[f] ELSE JUndef]]

\* the arguments a registered handler passes to the service
McpCallArgs(name, a) ==
  IF name = "getTeamRadio"
  THEN [a EXCEPT !.driverNumber = IF Truthy(@) THEN @ ELSE JStr("")]
  ELSE a

\* the registered handler once the service call has settled
McpToolHandler(name, outcome) ==
  CASE name = "getLiveTimingData" ->
         IF outcome.kind = "reject" THEN Threw(outcome.err)
         ELSE LET len == Prop(outcome.value, "length")
              IN IF ~len.ok THEN Threw(len.err)
                 ELSE IF len.val = JNum(0)
                      THEN Stringified(Message("No live F1 session data available at the moment. Please check back during a race weekend."))
                      ELSE Stringified(outcome.value)
    [] name = "getHistoricRaceResults" ->
         IF outcome.kind = "reject"
         THEN Stringified(JObj(<<"Results">>, <<JArr(<<>>)>>))
         ELSE Stringified(outcome.value)
    [] name = "getQualifyingResults" ->
         IF outcome.kind = "reject"
         THEN Stringified(JObj(<<"QualifyingResults">>, <<JArr(<<>>)>>))
         ELSE Stringified(outcome.value)
    [] name = "clearCache" -> Stringified(Message("Cache cleared successfully"))
    [] name = "getLiveWeather" ->
         IF outcome.kind = "reject" THEN Threw(outcome.err)
         ELSE formatMCPResponse(IF Truthy(outcome.value) THEN outcome.value
                                ELSE Message("No weather data available"),
                                JStr("live weather"))
    [] OTHER ->
         IF outcome.kind = "reject" THEN Threw(outcome.err)
         ELSE Stringified(outcome.value)

\* McpServer turns a handler's exception into a result flagged isError
McpServerResponse(h) ==
  IF h.threw THEN Result(<<TextBlock(JStr(h.err.message))>>, TRUE)
  ELSE Result(h.content, FALSE)

---------------------------------------------------------------------------
(* Dispatch path 2: the HTTP JSON-RPC endpoint, tools/list and tools/call *)

toolsList ==
  <<"getLiveTimingData", "getCurrentSessionStatus", "getDriverInfo",
    "getHistoricalSessions", "getHistoricRaceResults", "getDriverStandings",
    "getConstructorStandings", "getWeatherData", "getCarData", "getPitStopData",
    "getTeamRadio", "getRaceControlMessages", "getRaceCalendar", "getLapTimes",
    "getQualifyingResults", "getCircuitInfo", "getSeasonList", "getDriverInformation",
    "getConstructorInformation", "clearCache">>

\* the inputSchema tools/list declares for a tool: <<parameter, type, required>>
inputSchema(name) ==
  CASE name \in {"getDriverInfo", "getDriverInformation"} -> {<<"driverId", "str", TRUE>>}
    [] name \in {"getHistoricRaceResults", "getQualifyingResults"} ->
         {<<"year", "num", TRUE>>, <<"round", "num", TRUE>>}
    [] name \in {"getDriverStandings", "getConstructorStandings", "getRaceCalendar"} ->
         {<<"year", "num", TRUE>>}
    [] name \in {"getWeatherData", "getPitStopData", "getRaceControlMessages"} ->
         {<<"sessionKey", "str", TRUE>>}
    [] name = "getCarData" ->
         {<<"sessionKey", "str", TRUE>>, <<"driverNumber", "str", TRUE>>,
          <<"filters", "str", FALSE>>}
    [] name = "getTeamRadio" ->
         {<<"sessionKey", "str", TRUE>>, <<"driverNumber", "str", FALSE>>}
    [] name = "getLapTimes" ->
         {<<"year", "num", TRUE>>, <<"round", "num", TRUE>>, <<"driverId", "str", TRUE>>}
    [] name = "getCircuitInfo" -> {<<"circuitId", "str", TRUE>>}
    [] name = "getConstructorInformation" -> {<<"constructorId", "str", TRUE>>}
    [] OTHER -> {}

\* a faulty variant of the switch: the getLapTimes case is missing
toolsCallCases_withoutLapTimes ==
  {"getLiveTimingData", "getCurrentSessionStatus", "getDriverInfo",
   "getHistoricalSessions", "getHistoricRaceResults", "getDriverStandings",
   "getConstructorStandings", "getWeatherData", "getCarData", "getPitStopData",
   "getTeamRadio", "getRaceControlMessages", "getRaceCalendar",
   "getQualifyingResults", "getCircuitInfo", "getSeasonList", "getDriverInformation",
   "getConstructorInformation", "clearCache"}

\* the case labels of the tools/call switch
toolsCallCases ==
  {"getLiveTimingData", "getCurrentSessionStatus", "getDriverInfo",
   "getHistoricalSessions", "getHistoricRaceResults", "getDriverStandings",
   "getConstructorStandings", "getWeatherData", "getCarData", "getPitStopData",
   "getTeamRadio", "getRaceControlMessages", "getRaceCalendar", "getLapTimes",
   "getQualifyingResults", "getCircuitInfo", "getSeasonList", "getDriverInformation",
   "getConstructorInformation", "clearCache"}

\* the switch once the service call of the selected case has settled (the default
\* branch calls no service)
toolsCall(name, outcome) ==
  CASE name \notin toolsCallCases -> Threw(PlainError("Unknown tool: " \o name))
    [] outcome.kind = "reject" -> Threw(outcome.err)
    [] name = "getLiveTimingData" ->
         LET len == Prop(outcome.value, "length")
         IN IF ~len.ok THEN Threw(len.err)
            ELSE Stringified(IF len.val.t = "num" /\ len.val.n > 0
                             THEN outcome.value
                             ELSE Message("No live F1 session data available"))
    [] OTHER -> Stringified(outcome.value)

\* res.json of the result, or of the error built by the catch block
toolsCallResponse(h) ==
  IF h.threw
  THEN ErrorResponse(-32000,
                     IF h.err.message # "" THEN h.err.message ELSE "Tool execution failed")
  ELSE Result(h.content, FALSE)

---------------------------------------------------------------------------
(* The environment: callers' arguments and the two upstream APIs *)

NoArgs == [f \in ArgNames |-> JUndef]

Typical ==
  [NoArgs EXCEPT !.year = JNum(2023), !.round = JNum(1), !.driverId = JStr("hamilton"),
                 !.sessionKey = JStr("9158"), !.driverNumber = JStr("44"),
                 !.circuitId = JStr("monza"), !.constructorId = JStr("ferrari")]

SessionKeys == {JUndef, JStr(""), JStr("9158")}
FilterValues == {JUndef, JStr(""), JStr("speed>=300")}
DriverNumbers == {JStr("44"), JStr("1")}

\* the argument objects a caller sends with a tool name
ArgChoices(name) ==
  CASE name = "getCarData" ->
         {[Typical EXCEPT !.sessionKey = k, !.filters = f, !.driverNumber = d] :
            k \in SessionKeys, f \in FilterValues, d \in DriverNumbers}
    [] name \in {"getWeatherData", "getPitStopData", "getTeamRadio",
                 "getRaceControlMessages"} ->
         {[Typical EXCEPT !.sessionKey = k] : k \in SessionKeys}
    [] ParamSchema(name) = {} -> {NoArgs}
    [] OTHER -> {Typical, NoArgs}

\* the list an Ergast-compatible endpoint nests in its MRData wrapper
ErgastTable(url) ==
  LET path == SubSeq(url, Len(FASTF1_BASE_URL) + 1, Len(url))
  IN CASE Includes(path, "Standings.json") -> <<"StandingsTable", "StandingsLists">>
       [] Includes(path, "/laps.json") -> <<"RaceTable", "Races">>
       [] Includes(path, "/drivers/") -> <<"DriverTable", "Drivers">>
       [] Includes(path, "/circuits/") -> <<"CircuitTable", "Circuits">>
       [] Includes(path, "/seasons.json") -> <<"SeasonTable", "Seasons">>
       [] Includes(path, "/constructors/") -> <<"ConstructorTable", "Constructors">>
       [] OTHER -> <<"RaceTable", "Races">>

Item(n) == JObj(<<"id">>, <<JStr(n)>>)

MRData(table, items) ==
  JObj(<<"MRData">>, <<JObj(<<table[1]>>, <<JObj(<<table[2]>>, <<JArr(items)>>)>>)>>)

\* the 2xx bodies an upstream may send for a URL: well-formed ones, with and without
\* data, and degenerate ones (null, an empty body, an object without the wrapper)
Bodies(url) ==
  IF StartsWith(url, FASTF1_BASE_URL)
  THEN LET table == ErgastTable(url)
       IN {MRData(table, <<Item("r0"), Item("r1")>>), MRData(table, <<>>),
           JObj(<<>>, <<>>), JNull}
  ELSE {JArr(<<Item("w0"), Item("w1")>>), JArr(<<>>), JStr(""), JNull}

\* error.response?.status of a failed GET; undefined when no response arrived
Statuses == {JUndef, JNum(404), JNum(422), JNum(500)}

Answers(url) == {Answer(b) : b \in Bodies(url)} \cup {Failure(st) : st \in Statuses}

\* the clock advances by one of the two TTLs
TickSteps == {liveCacheTTL, defaultCacheTTL}

\* the endpoint a tool reads: tools of one family can meet on a cache key
Family(name) ==
  CASE name \in {"getLiveWeather", "getWeatherData"} -> "weather"
    [] name \in {"getLiveCarData", "getCarData"} -> "car_data"
    [] name \in {"getLiveRaceControl", "getRaceControlMessages"} -> "race_control"
    [] name \in {"getLiveTeamRadio", "getTeamRadio"} -> "team_radio"
    [] name \in {"getDriverInfo", "getDriverInformation"} -> "drivers"
    [] OTHER -> name

Paths == {"mcp", "http"}

\* the names callers send: the tools of either dispatch path, the streaming status
\* tool that the README documents, and a name nobody knows
ToolNames ==
  Range(registerAllTools) \cup Range(toolsList) \cup toolsCallCases
    \cup {"getStreamingStatus", "noSuchTool"}

\* the requests callers may send in a behaviour that works on one family: calls on
\* different cache keys do not meet, clearCache meets them all
CallsOf(family) ==
  UNION {{<<path, name, a>> : path \in Paths, a \in ArgChoices(name)} :
           name \in {n \in ToolNames : Family(n) = family \/ n = "clearCache"}}

\* the requests of the behaviours that exercise the cache and the gateway in depth:
\* a live and a published resource, each through one tool, and clearCache
GatewayCalls ==
  {<<"mcp", "getLiveWeather", NoArgs>>, <<"http", "getHistoricRaceResults", Typical>>,
   <<"http", "clearCache", NoArgs>>}

\* the tools/call requests of the behaviours that exercise the JSON-RPC envelope of
\* the HTTP endpoint: a tool whose GET may fail, a tool that settles at once, and a
\* name the switch does not know
EndpointCalls ==
  {<<"http", "getRaceControlMessages", Typical>>, <<"http", "getCarData", NoArgs>>,
   <<"http", "noSuchTool", NoArgs>>}

Families == {Family(n) : n \in ToolNames}

\* the requests of a behaviour
Requests(s) ==
  IF s.family \in Families THEN CallsOf(s.family)
  ELSE IF s.family = "endpoint" THEN EndpointCalls
  ELSE GatewayCalls

\* body.id of the requests of a behaviour: absent, null or a number
Ids(s) == IF s.family = "endpoint" THEN {JUndef, JNull, JNum(7)} ELSE {JNum(7)}

\* body.method of the requests that are neither tools/list nor tools/call
Methods == {JStr("initialize"), JStr("ping"), JUndef}

---------------------------------------------------------------------------
(* State machine.  One step is one turn of the event loop: a request runs  *)
(* up to its first await, or a suspended call resumes with the upstream    *)
(* answer and runs to its response.  `last` describes the turn just taken   *)
(* and is cleared when the turn ends.                                       *)

NoSvc == [kind |-> "none"]

\* liveDataStore as the constructor leaves it
EmptyLiveData ==
  [carData |-> EmptyMap, positions |-> EmptyMap, raceControl |-> <<>>, teamRadio |-> <<>>,
   weather |-> JNull, sessionInfo |-> JNull]

\* no call of fetchWithAuth has been made
NoAuthCall ==
  [pc |-> "idle", attempt |-> 0, gets |-> 0, invalidations |-> 0,
   answers |-> <<>>, outcome |-> NoSvc]

\* OpenF1StreamService as its constructor leaves it: no client, no connect() call
NoMqtt ==
  [isConnecting |-> FALSE, isConnected |-> FALSE, reconnectAttempts |-> 0,
   mqttClient |-> 0, subscribedTopics |-> {}, dataHandlers |-> {},
   clients |-> <<>>, pc |-> "idle", waiting |-> 0, nconnects |-> 0,
   returned |-> "none", gaveUp |-> FALSE]

\* a process that receives no signal: its server listens, no request is in flight
NoShutdown ==
  [shutdownInProgress |-> FALSE, server |-> "listening", arrived |-> 0, answered |-> 0,
   cleanups |-> 0, exit |-> "none", threw |-> FALSE, timer |-> "none",
   signals |-> 0, signal |-> ""]

\* a process that reads no request from its standard input
NoStdio ==
  [env |-> JUndef, PORT |-> JUndef, pc |-> "idle", connected |-> FALSE, listening |-> FALSE,
   requests |-> <<>>, taken |-> 0, stdout |-> <<>>]

\* no call of an aggregate method has been made
NoAggregate == [pc |-> "idle", name |-> "", parts |-> <<>>, outcome |-> NoSvc]
NoAnswer == [kind |-> "none"]
NoRead == [present |-> FALSE, expiresAt |-> 0, at |-> 0, data |-> JNull]

\* what getCachedData(key) met and returned at time t
ReadOf(m, key, t) ==
  [present |-> key \in DOMAIN m,
   expiresAt |-> IF key \in DOMAIN m THEN m[key].expiresAt ELSE 0,
   at |-> t,
   data |-> getCachedData(m, key, t).data]

NoReply == [kind |-> "none"]

NoTurn ==
  [op |-> "none", path |-> "", name |-> "", args |-> NoArgs, called |-> FALSE,
   key |-> "", answer |-> NoAnswer, svc |-> NoSvc, resp |-> Result(<<>>, FALSE),
   gets |-> 0, reads |-> 0, writes |-> 0, read |-> NoRead, before |-> {}, listed |-> <<>>,
   id |-> JUndef, rpc |-> NoReply, cleared |-> FALSE]

\* const id = body.id ?? null
\* (a faulty variant of RequestId: every response carries a null id)
RequestId_dropsId(id) == JNull

RequestId(id) == IF id \in {JUndef, JNull} THEN JNull ELSE id

\* res.json({jsonrpc: "2.0", id, result}) or res.json({jsonrpc: "2.0", id, error})
JsonRpc(id, resp) ==
  [kind |-> "jsonrpc", id |-> RequestId(id),
   members |-> {"jsonrpc", "id", IF resp.kind = "error" THEN "error" ELSE "result"}]

\* the turn `turn` of a request with id `id`, its response sent on `path`
Sent(path, id, turn) ==
  [turn EXCEPT !.id = id,
               !.rpc = IF path = "http" THEN JsonRpc(id, turn.resp) ELSE NoReply]

InitState ==
  /\ now = StartTime
  /\ ticks = 0
  /\ cache = EmptyMap
  /\ calls = EmptyBag
  /\ ncalls = 0
  /\ last = NoTurn
  /\ sent = 0
  /\ tokenCache = JNull
  /\ liveDataStore = EmptyLiveData
  /\ authCall = NoAuthCall
  /\ aggregate = NoAggregate
  /\ stdio = NoStdio
  /\ shutdown = NoShutdown
  /\ mqtt = NoMqtt

Init ==
  /\ InitState
  /\ scope \in {[family |-> f, budget |-> MaxCalls] : f \in Families}

InitGateway ==
  /\ InitState
  /\ scope = [family |-> "gateway", budget |-> MaxGatewayCalls]

InitEndpoint ==
  /\ InitState
  /\ scope = [family |-> "endpoint", budget |-> MaxEndpointCalls]

\* the response of a dispatch path to a settled service call
Respond(path, name, outcome) ==
  IF path = "mcp" THEN McpServerResponse(McpToolHandler(name, outcome))
  ELSE toolsCallResponse(toolsCall(name, outcome))

\* a turn that ended a tools/call with its response
Completed(path, name, a, called, key, answer, outcome, resp, gets, reads, writes, read) ==
  [op |-> "tools/call", path |-> path, name |-> name, args |-> a, called |-> called,
   key |-> key, answer |-> answer, svc |-> outcome, resp |-> resp,
   gets |-> gets, reads |-> reads, writes |-> writes,
   read |-> read, before |-> DOMAIN cache, listed |-> <<>>,
   id |-> JUndef, rpc |-> NoReply, cleared |-> FALSE]

\* a turn that left its tools/call suspended on an upstream GET
Suspended(path, name, a, key, reads, read) ==
  [op |-> "await", path |-> path, name |-> name, args |-> a, called |-> TRUE,
   key |-> key, answer |-> NoAnswer, svc |-> NoSvc, resp |-> Result(<<>>, FALSE), gets |-> 1, reads |-> reads, writes |-> 0,
   read |-> read, before |-> DOMAIN cache, listed |-> <<>>,
   id |-> JUndef, rpc |-> NoReply, cleared |-> FALSE]

\* history of a suspended call: clearCache has run since its GET was issued
DuringClear(call) == [call EXCEPT !.cleared = TRUE]

\* A tools/call request arrives and runs up to its first await: it is refused by the
\* dispatch path, or settles at once (a guard, clearCache, a cache hit), or issues
\* its upstream GET and is suspended.
CallTool(path, name, a, id) ==
  /\ last = NoTurn
  /\ ncalls < scope.budget
  /\ BagCardinality(calls) < MaxInflight
  /\ ncalls' = ncalls + 1
  /\ UNCHANGED <<now, ticks, scope, dormant>>
  /\ LET accept == IF path = "mcp" THEN McpServerAccept(name, a)
                   ELSE IF name \in toolsCallCases THEN [ok |-> TRUE, args |-> a]
                   ELSE [ok |-> FALSE, resp |-> toolsCallResponse(toolsCall(name, NoSvc))]
         args == IF path = "mcp" THEN McpCallArgs(name, accept.args) ELSE accept.args
         req == ServiceRequest(name, args)
         cached == req.kind = "fetch" /\ req.useCache
         begin == fetchWithErrorHandling_begin(cache, req.url, req.useCache, now)
         done(key, outcome, reads, read) ==
           /\ last' = Sent(path, id, Completed(path, name, a, TRUE, key, NoAnswer, outcome,
                                               Respond(path, name, outcome), 0, reads, 0,
                                               read))
           /\ sent' = sent + 1
     IN IF ~accept.ok
        THEN /\ last' = Sent(path, id, Completed(path, name, a, FALSE, "", NoAnswer, NoSvc,
                                                 accept.resp, 0, 0, 0, NoRead))
             /\ sent' = sent + 1
             /\ UNCHANGED <<cache, calls>>
        ELSE IF name = "clearCache"
        THEN /\ cache' = clearCache(cache)
             /\ done("", Resolve(JUndef), 0, NoRead)
             /\ calls' = BagOfAll(DuringClear, calls)
        ELSE IF req.kind = "settled"
        THEN /\ done("", req.outcome, 0, NoRead)
             /\ UNCHANGED <<cache, calls>>
        ELSE IF req.kind = "fetch" /\ begin.hit
        THEN /\ cache' = begin.cache
             /\ done(req.url, ServiceResult(name, Ok(begin.data)), 1,
                     ReadOf(cache, req.url, now))
             /\ UNCHANGED calls
        ELSE /\ cache' = IF req.kind = "fetch" THEN begin.cache ELSE cache
             /\ calls' = calls (+) SetToBag({[path |-> path, name |-> name, args |-> a,
                                               req |-> req, id |-> id,
                                               cleared |-> FALSE]})
             /\ last' = [Suspended(path, name, a, IF cached THEN req.url ELSE "",
                                   IF cached THEN 1 ELSE 0,
                                   IF cached THEN ReadOf(cache, req.url, now) ELSE NoRead)
                           EXCEPT !.id = id]
             /\ UNCHANGED sent

\* The upstream GET of a suspended call is answered: the gateway caches the body or
\* builds its error, the method and the handler finish, the response is sent.
UpstreamAnswers(call, resp) ==
  /\ last = NoTurn
  /\ BagIn(call, calls)
  /\ resp \in Answers(call.req.url)
  /\ LET req == call.req
         e == fetchWithErrorHandling_end(cache, req.url, req.errorMessage, req.useCache,
                                         req.cacheTTL, resp, now)
         outcome == IF req.kind = "fetch" THEN ServiceResult(call.name, e.result)
                    ELSE ServiceResult(call.name, resp)
     IN /\ cache' = IF req.kind = "fetch" THEN e.cache ELSE cache
        /\ last' = Sent(call.path, call.id,
                        [Completed(call.path, call.name, call.args, TRUE,
                                   IF req.kind = "fetch" /\ req.useCache THEN req.url ELSE "",
                                   resp, outcome,
                                   Respond(call.path, call.name, outcome), 1,
                                   IF req.kind = "fetch" /\ req.useCache THEN 1 ELSE 0,
                                   IF req.kind = "fetch" /\ req.useCache /\ resp.ok
                                   THEN 1 ELSE 0,
                                   NoRead)
                           EXCEPT !.cleared = call.cleared])
  /\ sent' = sent + 1
  /\ calls' = calls (-) SetToBag({call})
  /\ UNCHANGED <<now, ticks, ncalls, scope, dormant>>

\* A tools/list request: the HTTP endpoint answers its hand-written list, the
\* McpServer the tools registered on it.
ListTools(path, id) ==
  /\ last = NoTurn
  /\ ncalls < scope.budget
  /\ ncalls' = ncalls + 1
  /\ last' = Sent(path, id,
                  [NoTurn EXCEPT !.op = "tools/list", !.path = path, !.before = DOMAIN cache,
                                 !.listed = IF path = "http" THEN toolsList
                                            ELSE registerAllTools])
  /\ sent' = sent + 1
  /\ UNCHANGED <<now, ticks, cache, calls, scope, dormant>>

\* A POST to the HTTP endpoint whose method is neither tools/list nor tools/call:
\* initialize is answered with the server's description (its members are not
\* modelled), any other method, an absent one included, with Method not found.
Post(method, id) ==
  /\ last = NoTurn
  /\ ncalls < scope.budget
  /\ ncalls' = ncalls + 1
  /\ last' = Sent("http", id,
                  [NoTurn EXCEPT !.op = "post", !.path = "http",
                                 !.name = IF method = JUndef THEN "" ELSE method.s,
                                 !.before = DOMAIN cache,
                                 !.resp = IF method = JStr("initialize")
                                          THEN Result(<<>>, FALSE)
                                          ELSE ErrorResponse(-32601, "Method not found")])
  /\ sent' = sent + 1
  /\ UNCHANGED <<now, ticks, cache, calls, scope, dormant>>

\* The turn ends: its response, if any, has been sent.
TurnEnds ==
  /\ last # NoTurn
  /\ last' = NoTurn
  /\ UNCHANGED <<now, ticks, cache, calls, ncalls, sent, scope, dormant>>

\* Time passes between turns.
Tick(d) ==
  /\ last = NoTurn
  /\ ticks < MaxTicks
  /\ ticks' = ticks + 1
  /\ now' = now + d
  /\ UNCHANGED <<cache, calls, ncalls, last, sent, scope, dormant>>

Next ==
  \/ \E request \in Requests(scope) : \E id \in Ids(scope) :
       CallTool(request[1], request[2], request[3], id)
  \/ \E call \in BagToSet(calls) : \E resp \in Answers(call.req.url) : UpstreamAnswers(call, resp)
  \/ \E path \in Paths : \E id \in Ids(scope) : ListTools(path, id)
  \/ \E method \in Methods : \E id \in Ids(scope) : Post(method, id)
  \/ TurnEnds
  \/ \E d \in TickSteps : Tick(d)

\* every tool, one endpoint family per behaviour
Spec == Init /\ [][Next]_vars

\* the cache and the gateway in depth
SpecGateway == InitGateway /\ [][Next]_vars

\* The JSON-RPC envelope of the HTTP endpoint.  The upstream answers every GET or
\* its connection fails, which settles the promise of axios.get, and the event loop
\* runs every continuation that is ready: a suspended call is eventually resumed and
\* a turn eventually ends.
SpecEndpoint ==
  /\ InitEndpoint
  /\ [][Next]_vars
  /\ WF_vars(TurnEnds)
  /\ WF_vars(\E call \in BagToSet(calls) : \E resp \in Answers(call.req.url) :
                UpstreamAnswers(call, resp))

---------------------------------------------------------------------------
(* Properties of the cache store and the fetch gateway (SpecGateway) *)

\* C1: a cache read that meets an entry returns the entry's value while
\* now < expiresAt, and returns absent at any time from now = expiresAt on.
C1_EntryReturnedOnlyBeforeExpiry ==
  last.read.present =>
    IF last.read.at < last.read.expiresAt
    THEN last.key \in DOMAIN cache /\ last.read.data = cache[last.key].data
    ELSE last.read.data = JNull

\* C2: a fetch that finds an unexpired entry for its URL issues no upstream GET,
\* whatever body the entry holds.
C2_NoUpstreamGetWhileCached ==
  (last.read.present /\ last.read.at < last.read.expiresAt) => last.gets = 0

\* C6: clearCache answers without an error and leaves the cache empty, also when it
\* was empty already, and every key cached before it is then a miss: a fetch of
\* that key would go upstream.
C6_ClearCacheEmpties ==
  (last.op = "tools/call" /\ last.name = "clearCache" /\ last.called) =>
    /\ last.resp.kind = "result" /\ ~last.resp.isError
    /\ last.svc.kind = "resolve"
    /\ cache = EmptyMap
    /\ \A k \in last.before :
         /\ getCachedData(cache, k, now).data = JNull
         /\ ~fetchWithErrorHandling_begin(cache, k, TRUE, now).hit

\* a clearCache that met a cache holding an entry
C6_Witness ==
  /\ last.op = "tools/call" /\ last.name = "clearCache" /\ last.called
  /\ last.before # {}
  /\ cache = EmptyMap

---------------------------------------------------------------------------
(* Properties of the service methods and the two dispatch paths (Spec) *)

\* C3: getLiveWeather resolves to null when upstream answers 422, and
\* getHistoricRaceResults rejects with the gateway's error when upstream answers 404.
C3_ErrorPolicyPartitioned ==
  /\ (last.name = "getLiveWeather" /\ last.answer = Failure(JNum(422))) =>
       last.svc = Resolve(JNull)
  /\ (last.name = "getHistoricRaceResults" /\ last.answer = Failure(JNum(404))) =>
       last.svc = Reject(McpError("InternalError",
                                  "Failed to fetch historic race results: 404"))

\* getLiveWeather has resolved to null on an upstream 422
C3_Witness ==
  /\ last.op = "tools/call" /\ last.name = "getLiveWeather"
  /\ last.answer = Failure(JNum(422))
  /\ last.svc = Resolve(JNull)

\* C4: on both dispatch paths a rejection of getHistoricRaceResults or
\* getQualifyingResults reaches the caller as an error outcome.
C4_RejectionIsErrorOutcome ==
  (/\ last.op = "tools/call"
   /\ last.name \in {"getHistoricRaceResults", "getQualifyingResults"}
   /\ last.svc.kind = "reject") => last.resp.isError

\* C5: getCarData with an absent or empty session key rejects with InvalidRequest in
\* the turn it was called in, with no upstream GET and no cache read or write, for
\* every driverNumber and filters.
C5_CarDataNeedsSessionKey ==
  (/\ last.op \in {"tools/call", "await"}
   /\ last.name = "getCarData" /\ last.called
   /\ ~Truthy(last.args.sessionKey)) =>
    /\ last.op = "tools/call"
    /\ last.svc.kind = "reject" /\ last.svc.err.code = "InvalidRequest"
    /\ last.gets = 0 /\ last.reads = 0 /\ last.writes = 0
    /\ DOMAIN cache = last.before
    /\ \A call \in BagToSet(calls) : call.name = "getCarData" => Truthy(call.args.sessionKey)

\* getCarData was called with an empty session key and with filters, and rejected
C5_Witness ==
  /\ last.op = "tools/call" /\ last.name = "getCarData" /\ last.called
  /\ last.args.sessionKey = JStr("") /\ Truthy(last.args.filters)
  /\ last.svc.kind = "reject"

\* C7: the names the HTTP tools/list returns are the names with a tools/call branch:
\* an HTTP tools/call answers 'Unknown tool' exactly for the names that are not listed.
C7_ListedIffDispatched ==
  /\ (last.op = "tools/list" /\ last.path = "http") =>
       Range(last.listed) = toolsCallCases
  /\ (last.op = "tools/call" /\ last.path = "http") =>
       (last.name \in Range(toolsList)
          <=> ~(last.resp.kind = "error"
                /\ last.resp.message = "Unknown tool: " \o last.name))

\* an HTTP tools/call of a listed tool reached its service method
C7_Witness ==
  /\ last.op = "tools/call" /\ last.path = "http"
  /\ last.name = "getLapTimes" /\ last.name \in Range(toolsList)
  /\ last.called /\ last.resp.kind = "result"

\* C8: the same tool names are listed and callable under both transports.
C8_SameToolsOnEveryTransport ==
  /\ last.op = "tools/list" =>
       Range(last.listed) = Range(registerAllTools) \cup Range(toolsList)
  /\ (last.op = "tools/call"
      /\ last.name \in Range(registerAllTools) \cup toolsCallCases) => last.called

\* C9: whatever a service method returns, the tool response carries a content list
\* with at least one block.
C9_AtLeastOneBlock ==
  (last.op = "tools/call" /\ last.called /\ last.svc.kind = "resolve") =>
    Len(last.resp.content) >= 1

\* C10: every successful tool call returns text blocks whose text is a string that
\* parses as JSON.
C10_TextParsesAsJSON ==
  (last.op = "tools/call" /\ last.resp.kind = "result" /\ ~last.resp.isError) =>
    /\ Len(last.resp.content) >= 1
    /\ \A i \in 1..Len(last.resp.content) :
         /\ last.resp.content[i].type = "text"
         /\ last.resp.content[i].text.t = "str"
         /\ JSONparses(last.resp.content[i].text.s)

\* C11: when a service method returns an empty collection, the response text is a
\* 'no data' message object with a suggestion string, not the serialized empty list.
C11_EmptyCollectionBecomesNoDataMessage ==
  (last.op = "tools/call" /\ last.called /\ last.svc = Resolve(JArr(<<>>))) =>
    /\ last.resp.kind = "result"
    /\ Len(last.resp.content) = 1
    /\ last.resp.content[1].text.t = "str"
    /\ last.resp.content[1].text.s # "[]"
    /\ Includes(last.resp.content[1].text.s, "\"suggestion\":\"")

\* C12: a tools/call whose name has no handler calls no service method, leaves the
\* cache as it was and is answered with an error, and no failure of a service method
\* is answered on that path with an error of the same kind and code.
C12_UnknownToolDistinctFromServiceFailure ==
  LET unknown == IF last.path = "mcp" THEN McpServerAccept("noSuchTool", NoArgs).resp
                 ELSE toolsCallResponse(toolsCall("noSuchTool", NoSvc))
      handled == IF last.path = "mcp" THEN Range(registerAllTools) ELSE toolsCallCases
  IN /\ (last.op = "tools/call" /\ last.name \notin handled) =>
          /\ ~last.called /\ last.gets = 0 /\ last.reads = 0 /\ last.writes = 0
          /\ DOMAIN cache = last.before
          /\ last.resp.kind = "error" /\ last.resp.code = unknown.code
     /\ (last.op = "tools/call" /\ last.called /\ last.svc.kind = "reject") =>
          ~(last.resp.kind = unknown.kind /\ last.resp.code = unknown.code)

\* C13: when the upstream GET fails, the error the gateway rejects with carries the
\* error label and the upstream status code, or 'Unknown error' when the failure has
\* no status.
C13_GatewayErrorCarriesLabelAndStatus ==
  (/\ last.op = "tools/call" /\ last.gets = 1 /\ last.key # ""
   /\ last.svc.kind = "reject" /\ last.svc.err.name = "McpError") =>
    /\ ~last.answer.ok
    /\ last.svc.err.code = "InternalError"
    /\ Includes(last.svc.err.message, ServiceRequest(last.name, last.args).errorMessage)
    /\ IF last.answer.status.t = "num"
       THEN Includes(last.svc.err.message, ToStr(last.answer.status))
       ELSE Includes(last.svc.err.message, "Unknown error")

\* C14: a tool call whose arguments violate the schema declared for the tool on its
\* dispatch path (a required parameter missing, or a parameter of the wrong type)
\* calls no service method.
C14_InvalidArgumentsNeverDispatched ==
  LET schema == IF last.path = "mcp" THEN ParamSchema(last.name)
                ELSE inputSchema(last.name)
  IN (/\ last.op \in {"tools/call", "await"}
      /\ \E p \in schema :
           ~(last.args[p[1]].t = p[2] \/ (~p[3] /\ last.args[p[1]].t = "undefined"))) =>
       ~last.called

\* C15: every upstream GET a service method issues follows a cache lookup on its URL
\* in the same turn, and a GET that succeeds is followed by a cache write for that URL.
C15_EveryGetGoesThroughCache ==
  /\ last.op = "await" =>
       /\ last.gets = 1 /\ last.reads = 1
       /\ last.key # "" /\ last.read.at = now
  /\ (last.op = "tools/call" /\ last.gets = 1 /\ last.answer.ok) =>
       /\ last.writes = 1
       /\ last.key \in DOMAIN cache /\ cache[last.key].data = last.answer.body

\* what C16 requires of every state: each request received on either path is
\* answered once or still suspended, and each answer of the HTTP endpoint is one
\* JSON-RPC object with the request's id and exactly one of result and error
C16_Envelope ==
  /\ ncalls = sent + BagCardinality(calls)
  /\ last.op = "await" => last.rpc = NoReply
  /\ (last.path = "http" /\ last.op \in {"tools/call", "tools/list", "post"}) =>
       /\ last.rpc.kind = "jsonrpc"
       /\ last.rpc.id = (IF last.id \in {JUndef, JNull} THEN JNull ELSE last.id)
       /\ Cardinality(last.rpc.members \cap {"result", "error"}) = 1
  /\ (last.path = "http" /\ last.op = "tools/call" /\ last.svc.kind = "reject") =>
       /\ "error" \in last.rpc.members
       /\ last.resp.kind = "error" /\ last.resp.message # ""

C17_Step ==
  /\ (last'.op = "await" /\ last'.key # "") =>
       \* a miss issues its own GET, whatever is already suspended on the key
       /\ last.op = "none" /\ last'.gets = 1
       /\ BagCardinality(calls') = BagCardinality(calls) + 1
       /\ \E call \in BagToSet(calls') :
            /\ call.req.url = last'.key
            /\ CopiesIn(call, calls') = CopiesIn(call, calls) + 1
  /\ (last'.op = "tools/call" /\ last'.key # "" /\ last'.gets = 0) =>
       \* only an entry of the cache spares the GET, never a suspended call
       last'.key \in DOMAIN cache
  /\ (last'.op = "tools/call" /\ last'.key # "" /\ last'.gets = 1) =>
       \* the answer that arrives writes the key, over any entry written meanwhile
       /\ BagCardinality(calls') = BagCardinality(calls) - 1
       /\ IF last'.answer.ok
          THEN /\ last'.writes = 1
               /\ DOMAIN cache' = DOMAIN cache \cup {last'.key}
               /\ cache'[last'.key].data = last'.answer.body
               /\ \E call \in BagToSet(calls) :
                    /\ call.req.url = last'.key /\ call.name = last'.name
                    /\ cache'[last'.key].expiresAt =
                         now + (IF call.req.cacheTTL = JUndef THEN defaultCacheTTL
                                ELSE call.req.cacheTTL.n)
               /\ \A k \in DOMAIN cache \ {last'.key} : cache'[k] = cache[k]
          ELSE last'.writes = 0 /\ cache' = cache

\* C17: two calls that miss on the same key concurrently both issue an upstream GET
\* and both write the key; each answer that arrives replaces the entry with its body
\* and an expiry counted from its arrival, so that the entry holds the answer that
\* arrived last, and a failed answer or another key's write leaves the entry alone.
C17_LastWriterWins == [][C17_Step]_vars

\* two calls missed on the same key and were suspended together; the answer to one
\* of them has just arrived and written the key while the other GET is still out
C17_Witness ==
  /\ last.op = "tools/call" /\ last.gets = 1 /\ last.writes = 1
  /\ cache[last.key].data = last.answer.body
  /\ \E call \in BagToSet(calls) : call.req.url = last.key /\ call.name = last.name

---------------------------------------------------------------------------
(* The authenticated gateway, the token cache and the live-data snapshot.   *)
(* The shipped build never starts the streaming subsystem and no tool calls *)
(* fetchWithAuth; SpecStream describes the service with that subsystem      *)
(* awake: fetchWithAuth is called on the live weather resource, MQTT        *)
(* messages reach the handlers, and clearCache is called as a tool.         *)

TOKEN_BUFFER_SECONDS == 60

\* isTokenValid() at time t
isTokenValid(tc, t) == tc # JNull /\ tc.expiresAt > t + TOKEN_BUFFER_SECONDS * 1000

\* invalidateToken()
invalidateToken(tc) == JNull

\* error.response?.status === 401
\* (a faulty variant of Unauthorized: every failed answer is retried)
Unauthorized_anyFailure(resp) == ~resp.ok

Unauthorized(resp) == ~resp.ok /\ resp.status = JNum(401)

\* the McpError of the outer catch (first attempt) and of the inner one (retry)
fetchWithAuth_error(attempt, errorMessage, status) ==
  McpError("InternalError",
           errorMessage \o (IF attempt = 2 THEN " (retry failed): " ELSE ": ")
                        \o ToStr(IF Truthy(status) THEN status ELSE JStr("Unknown error")))

\* the arguments of the call: the live weather resource, cached for liveCacheTTL
fetchWithAuth_args == getLiveWeather_request

\* `await openf1Auth.getAccessToken(); await axios.get(url, axiosConfig)` up to the
\* first of the two that suspends: without credentials getAccessToken throws an
\* Error that has no response, with a valid token the GET is issued, otherwise the
\* token is requested
fetchWithAuth_attempt(call, tc, credentials, t) ==
  IF ~credentials
  THEN [call EXCEPT !.pc = "done",
                    !.outcome = Reject(fetchWithAuth_error(call.attempt,
                                                           fetchWithAuth_args.errorMessage,
                                                           JUndef))]
  ELSE IF isTokenValid(tc, t) THEN [call EXCEPT !.pc = "get", !.gets = @ + 1]
  ELSE [call EXCEPT !.pc = "token"]

\* the answers to axios.post(OAUTH_URL): a token and its expires_in (seconds), or a
\* failure, which fetchNewToken rethrows as an Error without a response
TokenResponses ==
  {[ok |-> TRUE, access_token |-> "token", expires_in |-> e] : e \in {30, 3600}}
    \cup {Failure(JNum(401)), Failure(JUndef)}

\* the answers to the authenticated GET
AuthAnswers ==
  {Answer(JArr(<<Item("w0")>>)), Failure(JNum(401)), Failure(JNum(500)), Failure(JUndef)}

\* fetchWithAuth is called: a hit returns the cached value, a miss starts the first
\* attempt
FetchWithAuth ==
  /\ last = NoTurn
  /\ authCall.pc \in {"idle", "done"}
  /\ ncalls < scope.budget
  /\ ncalls' = ncalls + 1
  /\ LET req == fetchWithAuth_args
         begin == fetchWithErrorHandling_begin(cache, req.url, req.useCache, now)
     IN /\ cache' = begin.cache
        /\ authCall' = IF begin.hit
                       THEN [NoAuthCall EXCEPT !.pc = "done", !.outcome = Resolve(begin.data)]
                       ELSE fetchWithAuth_attempt([NoAuthCall EXCEPT !.attempt = 1],
                                                  tokenCache, scope.credentials, now)
  /\ UNCHANGED <<now, ticks, calls, last, sent, scope, mqtt, shutdown, stdio, tokenCache, liveDataStore, aggregate>>

\* axios.post(OAUTH_URL) is answered: fetchNewToken caches the token and the GET is
\* issued with it, or getAccessToken throws and the attempt fails
TokenAnswers(ans) ==
  /\ last = NoTurn
  /\ authCall.pc = "token"
  /\ IF ans.ok
     THEN /\ tokenCache' = [accessToken |-> ans.access_token,
                            expiresAt |-> now + ans.expires_in * 1000]
          /\ authCall' = [authCall EXCEPT !.pc = "get", !.gets = @ + 1]
     ELSE /\ authCall' = [authCall EXCEPT
                            !.pc = "done",
                            !.outcome = Reject(fetchWithAuth_error(
                                                 authCall.attempt,
                                                 fetchWithAuth_args.errorMessage, JUndef))]
          /\ UNCHANGED tokenCache
  /\ UNCHANGED <<now, ticks, cache, calls, ncalls, last, sent, scope, mqtt, shutdown, stdio, liveDataStore,
                 aggregate>>

\* the authenticated GET is answered: the body is cached and returned; a 401 to the
\* first attempt invalidates the token and starts the retry; any other failure, and
\* every failure of the retry, is thrown as the McpError
AuthGetAnswers(resp) ==
  /\ last = NoTurn
  /\ authCall.pc = "get"
  /\ LET req == fetchWithAuth_args
         call == [authCall EXCEPT !.answers = Append(@, resp)]
     IN IF resp.ok
        THEN /\ cache' = IF req.useCache
                         THEN setCachedData(cache, req.url, resp.body, req.cacheTTL, now)
                         ELSE cache
             /\ authCall' = [call EXCEPT !.pc = "done", !.outcome = Resolve(resp.body)]
             /\ UNCHANGED tokenCache
        ELSE IF authCall.attempt = 1 /\ Unauthorized(resp)
        THEN /\ tokenCache' = invalidateToken(tokenCache)
             /\ authCall' = fetchWithAuth_attempt(
                              [call EXCEPT !.attempt = 2, !.invalidations = @ + 1],
                              tokenCache', scope.credentials, now)
             /\ UNCHANGED cache
        ELSE /\ authCall' = [call EXCEPT
                               !.pc = "done",
                               !.outcome = Reject(fetchWithAuth_error(
                                                    authCall.attempt, req.errorMessage,
                                                    resp.status))]
             /\ UNCHANGED <<cache, tokenCache>>
  /\ UNCHANGED <<now, ticks, calls, ncalls, last, sent, scope, mqtt, shutdown, stdio, liveDataStore, aggregate>>

\* the MQTT messages on the weather topic: an array of records or one record
WeatherMessages == {JArr(<<Item("w0"), Item("w1")>>), Item("w2")}

\* handleWeather(topic, data)
handleWeather(data) ==
  /\ last = NoTurn
  /\ liveDataStore' = [liveDataStore EXCEPT
                         !.weather = IF data.t = "arr" THEN First(data).val ELSE data]
  /\ UNCHANGED <<now, ticks, cache, calls, ncalls, last, sent, scope, mqtt, shutdown, stdio, tokenCache, authCall,
                 aggregate>>

InitStream ==
  /\ InitState
  /\ scope \in {[family |-> "stream", budget |-> MaxStreamCalls, credentials |-> c] :
                  c \in BOOLEAN}

NextStream ==
  \/ FetchWithAuth
  \/ \E ans \in TokenResponses : TokenAnswers(ans)
  \/ \E resp \in AuthAnswers : AuthGetAnswers(resp)
  \/ \E data \in WeatherMessages : handleWeather(data)
  \/ \E id \in Ids(scope) : CallTool("http", "clearCache", NoArgs, id)
  \/ TurnEnds
  \/ \E d \in TickSteps : Tick(d)

\* the service with the streaming subsystem awake
SpecStream == InitStream /\ [][NextStream]_vars

\* C18: one call of fetchWithAuth issues at most two upstream GETs; the second is
\* issued only after the first was answered 401; the cached token is invalidated
\* exactly once, before the second GET and in no other case; a failure of the
\* second attempt is final.
C18_AtMostOneRetry ==
  /\ authCall.gets <= 2
  /\ authCall.invalidations <= 1
  /\ Len(authCall.answers) = authCall.gets - (IF authCall.pc = "get" THEN 1 ELSE 0)
  /\ authCall.gets = 2 => authCall.invalidations = 1
  /\ authCall.invalidations = 1 =>
       /\ authCall.attempt = 2
       /\ authCall.answers # <<>> /\ authCall.answers[1] = Failure(JNum(401))
  /\ (authCall.attempt = 2 /\ authCall.pc = "token") => tokenCache = JNull
  /\ (Len(authCall.answers) = 2 /\ ~authCall.answers[2].ok) =>
       /\ authCall.pc = "done"
       /\ authCall.outcome.kind = "reject"
       /\ Includes(authCall.outcome.err.message, "(retry failed)")

\* the first GET was answered 401, the token was invalidated and fetched again, and
\* the second GET failed as well: the call has rejected after two GETs
C18_Witness ==
  /\ authCall.pc = "done" /\ authCall.gets = 2 /\ authCall.invalidations = 1
  /\ authCall.answers = <<Failure(JNum(401)), Failure(JNum(500))>>
  /\ authCall.outcome.kind = "reject"
  /\ tokenCache # JNull

---------------------------------------------------------------------------
(* The aggregate methods getLapAnalysis and getRaceSimulation.  Each awaits *)
(* Promise.all of component methods that go through the gateway; the       *)
(* components run up to their GET in the turn of the call, and their        *)
(* answers arrive in any order.  SpecAggregate calls them on the service.   *)

\* [getLiveTimingData(), getWeatherData(sessionKey),
\*  getDetailedTelemetry(driverNumber, lapNumber, sessionKey)]
getLapAnalysis_request(sessionKey, driverNumber, lapNumber) ==
  <<Fetch(OPENF1_BASE_URL \o "/live_timing", "Failed to fetch live timing data",
          JNum(liveCacheTTL)),
    Fetch(OPENF1_BASE_URL \o (IF Truthy(sessionKey)
                              THEN "/weather?session_key=" \o ToStr(sessionKey)
                              ELSE "/weather"),
          "Failed to fetch weather data", JNum(liveCacheTTL)),
    Fetch(OPENF1_BASE_URL \o "/telemetry?driver_number=" \o ToStr(driverNumber)
            \o (IF Truthy(sessionKey) THEN "&session_key=" \o ToStr(sessionKey) ELSE "")
            \o (IF Truthy(lapNumber) THEN "&lap=" \o ToStr(lapNumber) ELSE ""),
          "Failed to fetch telemetry data", JNum(liveCacheTTL))>>

\* the rest of getLapAnalysis, applied to [lapTiming, weather, telemetry]; the
\* numeric fields of the record (sector_times, speed_trap) are left out
getLapAnalysis(all, driverNumber, lapNumber) ==
  LET lapTiming == all[1]
      weather == all[2]
      telemetry == all[3]
      matches == IF lapTiming.t = "arr"
                 THEN {i \in 1..Len(lapTiming.items) :
                         /\ Prop(lapTiming.items[i], "driver_number").val = driverNumber
                         /\ Prop(lapTiming.items[i], "lap_number").val = lapNumber}
                 ELSE {}
      lapData == lapTiming.items[CHOOSE i \in matches : \A j \in matches : i <= j]
      compound == OptPath(First(telemetry).val, <<"tyre_compound">>)
  IN IF lapTiming.t \in {"undefined", "null"} THEN Reject(Prop(lapTiming, "find").err)
     ELSE IF lapTiming.t # "arr" THEN Reject(TypeError("lapTiming.find is not a function"))
     ELSE IF matches = {} THEN Reject(McpError("InternalError", "Lap data not found"))
     ELSE IF telemetry.t \in {"undefined", "null"} THEN Reject(Prop(telemetry, "map").err)
     ELSE IF telemetry.t # "arr" THEN Reject(TypeError("telemetry.map is not a function"))
     ELSE IF ~First(weather).ok THEN Reject(First(weather).err)
     ELSE Resolve(JObj(<<"driver_number", "lap_number", "lap_time", "tyre_compound",
                         "weather_conditions", "valid_lap">>,
                       <<driverNumber, lapNumber, Prop(lapData, "lap_time").val,
                         IF Truthy(compound) THEN compound ELSE JStr("unknown"),
                         First(weather).val, JStr("true")>>))

\* [getDetailedTelemetry(driverNumber, 0, sessionKey),
\*  getTyreStrategy(sessionKey, driverNumber)]
getRaceSimulation_request(sessionKey, driverNumber) ==
  <<Fetch(OPENF1_BASE_URL \o "/telemetry?driver_number=" \o ToStr(driverNumber)
            \o (IF Truthy(sessionKey) THEN "&session_key=" \o ToStr(sessionKey) ELSE ""),
          "Failed to fetch telemetry data", JNum(liveCacheTTL)),
    Fetch(OPENF1_BASE_URL \o "/tyre_stints?session_key=" \o ToStr(sessionKey)
            \o (IF Truthy(driverNumber) THEN "&driver_number=" \o ToStr(driverNumber)
                ELSE ""),
          "Failed to fetch tyre strategy data", JNum(defaultCacheTTL))>>

\* the rest of getRaceSimulation: a record of placeholders
getRaceSimulation(all, driverNumber) ==
  Resolve(JObj(<<"driver_number", "predicted_lap_time", "fuel_corrected_time",
                 "tyre_life_impact">>,
               <<driverNumber, JNum(0), JNum(0), JNum(0)>>))

\* Promise.all(parts), looked at when a part has just settled: rejected with the
\* error of the part that rejected, resolved with all the values, or still pending
\* (a faulty variant of PromiseAll: it waits for every part and resolves with the
\* values of those that resolved, as Promise.allSettled would allow)
PromiseAll_allSettled(parts) ==
  IF \E i \in 1..Len(parts) : parts[i].state = "pending" THEN NoSvc
  ELSE Resolve([i \in 1..Len(parts) |-> parts[i].value])

PromiseAll(parts) ==
  IF \E i \in 1..Len(parts) : parts[i].state = "rejected"
  THEN Reject(parts[CHOOSE i \in 1..Len(parts) : parts[i].state = "rejected"].err)
  ELSE IF \E i \in 1..Len(parts) : parts[i].state = "pending" THEN NoSvc
  ELSE Resolve([i \in 1..Len(parts) |-> parts[i].value])

\* the callers' arguments
AggregateArgs == [sessionKey |-> JStr("9158"), driverNumber |-> JStr("44"), lapNumber |-> JNum(1)]

AggregateNames == {"getLapAnalysis", "getRaceSimulation"}

\* a record of the live timing feed, of the telemetry and of the weather
Sample(driver, lap) ==
  JObj(<<"driver_number", "lap_number", "lap_time", "tyre_compound">>,
       <<driver, lap, JNum(90), JStr("SOFT")>>)

\* the upstream answers to the GET of a component
PartAnswers ==
  {Answer(JArr(<<Sample(JStr("44"), JNum(1))>>)), Answer(JArr(<<>>)), Answer(JNull),
   Failure(JNum(500))}

\* the outcome of the aggregate once Promise.all has settled
aggregate_settle(name, parts) ==
  LET all == PromiseAll(parts)
      a == AggregateArgs
  IN IF all.kind # "resolve" THEN all
     ELSE IF name = "getLapAnalysis"
          THEN getLapAnalysis(all.value, a.driverNumber, a.lapNumber)
          ELSE getRaceSimulation(all.value, a.driverNumber)

\* every component method runs up to its await: a hit resolves the part at once, a
\* miss issues its GET
RECURSIVE aggregate_begin(_, _, _)
aggregate_begin(m, reqs, t) ==
  IF reqs = <<>> THEN [cache |-> m, parts |-> <<>>]
  ELSE LET b == fetchWithErrorHandling_begin(m, Head(reqs).url, TRUE, t)
           rest == aggregate_begin(b.cache, Tail(reqs), t)
       IN [cache |-> rest.cache,
           parts |-> <<[req |-> Head(reqs),
                        state |-> IF b.hit THEN "resolved" ELSE "pending",
                        value |-> b.data, err |-> NoSvc]>> \o rest.parts]

\* an aggregate method is called
AggregateStarts(name) ==
  /\ ncalls < scope.budget
  /\ \A i \in 1..Len(aggregate.parts) : aggregate.parts[i].state # "pending"
  /\ ncalls' = ncalls + 1
  /\ LET a == AggregateArgs
         reqs == IF name = "getLapAnalysis"
                 THEN getLapAnalysis_request(a.sessionKey, a.driverNumber, a.lapNumber)
                 ELSE getRaceSimulation_request(a.sessionKey, a.driverNumber)
         begin == aggregate_begin(cache, reqs, now)
     IN /\ cache' = begin.cache
        /\ aggregate' = [pc |-> "called", name |-> name, parts |-> begin.parts,
                         outcome |-> aggregate_settle(name, begin.parts)]
  /\ UNCHANGED <<now, ticks, calls, last, sent, scope, mqtt, shutdown, stdio, tokenCache, liveDataStore, authCall>>

\* the GET of a component is answered: the gateway caches the body or throws its
\* McpError, and Promise.all settles the aggregate unless it has settled already
PartAnswered(i, resp) ==
  /\ i \in 1..Len(aggregate.parts)
  /\ aggregate.parts[i].state = "pending"
  /\ LET req == aggregate.parts[i].req
         parts == [aggregate.parts EXCEPT
                     ![i] = IF resp.ok
                            THEN [@ EXCEPT !.state = "resolved", !.value = resp.body]
                            ELSE [@ EXCEPT
                                    !.state = "rejected",
                                    !.err = McpError("InternalError",
                                              req.errorMessage \o ": " \o
                                              ToStr(IF Truthy(resp.status) THEN resp.status
                                                    ELSE JStr("Unknown error")))]]
     IN /\ cache' = IF resp.ok
                    THEN setCachedData(cache, req.url, resp.body, req.cacheTTL, now)
                    ELSE cache
        /\ aggregate' = [aggregate EXCEPT
                           !.parts = parts,
                           !.outcome = IF @ # NoSvc THEN @
                                       ELSE aggregate_settle(aggregate.name, parts)]
  /\ UNCHANGED <<now, ticks, calls, ncalls, last, sent, scope, mqtt, shutdown, stdio, tokenCache, liveDataStore,
                 authCall>>

InitAggregate ==
  /\ InitState
  /\ scope = [family |-> "aggregate", budget |-> MaxAggregateCalls]

NextAggregate ==
  \/ \E name \in AggregateNames : AggregateStarts(name)
  \/ \E i \in 1..3 : \E resp \in PartAnswers : PartAnswered(i, resp)
  \/ \E d \in TickSteps : Tick(d)

\* the aggregate methods called on the service
SpecAggregate == InitAggregate /\ [][NextAggregate]_vars

\* C19: an aggregate method rejects as soon as one of its component fetches has
\* failed upstream, whatever the other components answer, and resolves only when
\* every component has resolved: never with a record built from partial results.
C19_AggregateFailsWithAnyPart ==
  /\ (\E i \in 1..Len(aggregate.parts) : aggregate.parts[i].state = "rejected") =>
       aggregate.outcome.kind = "reject"
  /\ aggregate.outcome.kind = "resolve" =>
       \A i \in 1..Len(aggregate.parts) : aggregate.parts[i].state = "resolved"

\* one component of getRaceSimulation has resolved and is cached, the other has
\* failed upstream: the aggregate has rejected with the error of the failed one
C19_Witness ==
  /\ aggregate.name = "getRaceSimulation"
  /\ aggregate.parts[1].state = "resolved" /\ aggregate.parts[2].state = "rejected"
  /\ aggregate.parts[1].req.url \in DOMAIN cache
  /\ aggregate.outcome = Reject(aggregate.parts[2].err)

---------------------------------------------------------------------------
(* Claims on the cache, the service methods and the tools, continued *)

\* what C21 requires of every step
C21_Step ==
  /\ cache' # cache =>
       \/ /\ last'.op = "tools/call" /\ last'.name = "clearCache" /\ last'.called
          /\ cache' = EmptyMap
       \/ /\ last'.op = "tools/call" /\ last'.gets = 1 /\ last'.key # ""
          /\ last'.answer.ok
          /\ DOMAIN cache' = DOMAIN cache \cup {last'.key}
          /\ cache'[last'.key].data = last'.answer.body
          /\ cache'[last'.key].expiresAt \in {now + liveCacheTTL, now + defaultCacheTTL}
          /\ \A k \in DOMAIN cache \ {last'.key} : cache'[k] = cache[k]
       \/ /\ last'.op \in {"tools/call", "await"} /\ last'.reads = 1
          /\ last'.key \in DOMAIN cache
          /\ now > cache[last'.key].expiresAt
          /\ cache' = MapDelete(cache, last'.key)
  /\ (last'.op = "tools/call" /\ last'.gets = 1 /\ ~last'.answer.ok) => cache' = cache

\* C21: the cache store changes only by a write after a successful upstream
\* response, by the removal of an expired entry when that key is read, or by
\* clearCache; a failed fetch leaves it as it is, and so does every other step.
C21_CacheChangesOnlyThreeWays == [][C21_Step]_vars

\* a GET has just failed while the cache holds, under the key of that GET, an entry
\* that has not expired: the entry is still there
C21_Witness ==
  /\ last.op = "tools/call" /\ last.gets = 1 /\ ~last.answer.ok
  /\ last.key \in DOMAIN cache /\ cache[last.key].expiresAt >= now

\* C22: a getCarData call with a session key requests, and caches under, the
\* car_data URL with driver_number and session_key followed by the filter speed>=0
\* when filters is absent or empty, and followed by the caller's filters alone when
\* they are supplied.
C22_CarDataDefaultFilter ==
  (/\ last.op \in {"tools/call", "await"}
   /\ last.name = "getCarData" /\ last.called
   /\ Truthy(last.args.sessionKey)) =>
    LET stem == "https://api.openf1.org/v1/car_data?driver_number="
                  \o last.args.driverNumber.s \o "&session_key=" \o last.args.sessionKey.s
    IN /\ last.key = (IF last.args.filters \in {JUndef, JStr("")}
                      THEN stem \o "&speed>=0"
                      ELSE stem \o "&" \o last.args.filters.s)
       /\ last.args.filters \notin {JUndef, JStr("")} => ~Includes(last.key, "speed>=0")
       /\ last.op = "await" =>
            \E call \in BagToSet(calls) : call.name = "getCarData" /\ call.req.url = last.key
       /\ (last.op = "tools/call" /\ last.gets = 1 /\ last.answer.ok) =>
            last.key \in DOMAIN cache

\* getCarData was called with a session key and the filter speed>=300: its GET has
\* been answered and the body is cached under the URL that ends with that filter
C22_Witness ==
  /\ last.op = "tools/call" /\ last.name = "getCarData" /\ last.gets = 1
  /\ last.args.filters = JStr("speed>=300") /\ last.answer.ok
  /\ last.key \in DOMAIN cache

\* C23: when the upstream body has the shape {MRData: {RaceTable: {Races: [r0, ...]}}},
\* getHistoricRaceResults resolves to r0, the first element of Races: not to the
\* wrapper and not to the list.
C23_FirstRaceReturned ==
  (/\ last.op = "tools/call" /\ last.name = "getHistoricRaceResults"
   /\ last.gets = 1 /\ last.answer.ok
   /\ OptPath(last.answer.body, <<"MRData", "RaceTable", "Races">>).t = "arr"
   /\ OptPath(last.answer.body, <<"MRData", "RaceTable", "Races">>).items # <<>>) =>
    LET Races == OptPath(last.answer.body, <<"MRData", "RaceTable", "Races">>)
    IN /\ last.svc = Resolve(Races.items[1])
       /\ last.svc.value # last.answer.body
       /\ last.svc.value # Races

\* upstream has answered with two races and the method has resolved to the first
C23_Witness ==
  /\ last.op = "tools/call" /\ last.name = "getHistoricRaceResults"
  /\ last.gets = 1 /\ last.answer.ok
  /\ last.answer.body = MRData(<<"RaceTable", "Races">>, <<Item("r0"), Item("r1")>>)
  /\ last.svc = Resolve(Item("r0"))

\* C24: an entry written for live-session data (weather, car telemetry, timing)
\* expires 10 s after the write, and an entry written for published data (race and
\* qualifying results, standings, driver bios, calendars) 5 min after it.
C24_TwoTTLClasses ==
  (last.op = "tools/call" /\ last.writes = 1) =>
    /\ last.key \in DOMAIN cache
    /\ last.name \in {"getLiveWeather", "getWeatherData", "getLiveCarData", "getCarData",
                      "getLiveTimingData"} =>
         cache[last.key].expiresAt = now + 10 * 1000
    /\ last.name \in {"getHistoricRaceResults", "getQualifyingResults",
                      "getDriverStandings", "getConstructorStandings", "getDriverInfo",
                      "getDriverInformation", "getRaceCalendar"} =>
         cache[last.key].expiresAt = now + 5 * 60 * 1000

\* the weather of a session has just been written to the cache, after the clock
\* had advanced
C24_Witness ==
  /\ last.op = "tools/call" /\ last.writes = 1 /\ last.name = "getWeatherData"
  /\ now > StartTime
  /\ cache[last.key].expiresAt = now + 10000


\* C25: getLiveTimingData, getLiveCarData, getLivePositions, getLiveRaceControl and
\* getLiveTeamRadio resolve to an empty array when the upstream answers 422, and
\* reject with the gateway's McpError, unchanged, on every other upstream failure,
\* a failure without a status included (the gateway reports it as status 0).
C25_LiveTools422Only ==
  \A t \in {<<"getLiveTimingData", "Failed to fetch live timing data">>,
            <<"getLiveCarData", "Failed to fetch car data">>,
            <<"getLivePositions", "Failed to fetch position data">>,
            <<"getLiveRaceControl", "Failed to fetch race control data">>,
            <<"getLiveTeamRadio", "Failed to fetch team radio data">>} :
    (last.op = "tools/call" /\ last.name = t[1] /\ last.gets = 1 /\ ~last.answer.ok) =>
      /\ last.answer.status = JNum(422) => last.svc = Resolve(JArr(<<>>))
      /\ last.answer.status = JUndef =>
           last.svc = Reject(McpError("InternalError", t[2] \o ": 0"))
      /\ last.answer.status \in {JNum(404), JNum(500)} =>
           last.svc = Reject(McpError("InternalError",
                                      t[2] \o ": " \o ToStr(last.answer.status)))

\* a GET of live positions has failed without a response and the method has
\* rejected with the gateway's error
C25_Witness ==
  /\ last.op = "tools/call" /\ last.name = "getLivePositions"
  /\ last.gets = 1 /\ ~last.answer.ok /\ last.answer.status = JUndef
  /\ last.svc = Reject(McpError("InternalError", "Failed to fetch position data: 0"))

---------------------------------------------------------------------------
(* Configuration: loadConfig reads the environment once, at start-up.  A    *)
(* behaviour of SpecConfig runs the gateway's requests in a process started *)
(* with one value of CACHE_ENABLED.                                         *)

MaxConfigCalls == 2

\* String.prototype.toLowerCase on ASCII text
RECURSIVE toLowerCase(_)
toLowerCase(s) ==
  IF s = "" THEN ""
  ELSE LET c == SubSeq(s, 1, 1)
           lower == CASE c = "T" -> "t" [] c = "R" -> "r" [] c = "U" -> "u"
                      [] c = "E" -> "e" [] c = "F" -> "f" [] c = "A" -> "a"
                      [] c = "L" -> "l" [] c = "S" -> "s" [] OTHER -> c
       IN lower \o toLowerCase(SubSeq(s, 2, Len(s)))

parseBoolean(value, defaultValue) ==
  IF value = JUndef THEN defaultValue
  ELSE toLowerCase(value.s) = "true" \/ value.s = "1"

DigitValue(c) ==
  CASE c = "0" -> 0 [] c = "1" -> 1 [] c = "2" -> 2 [] c = "3" -> 3 [] c = "4" -> 4
    [] c = "5" -> 5 [] c = "6" -> 6 [] c = "7" -> 7 [] c = "8" -> 8 [] c = "9" -> 9

\* parseInt(s, 10) on text without sign or blanks: the number its leading digits
\* spell, or NaN when it starts with no digit
parseInt(s) ==
  LET n == SkipDigits(s, 1) - 1
      value[i \in 0..n] == IF i = 0 THEN 0 ELSE 10 * value[i - 1] + DigitValue(Ch(s, i))
  IN IF n = 0 THEN [nan |-> TRUE, n |-> 0] ELSE [nan |-> FALSE, n |-> value[n]]

parseNumber(value, defaultValue) ==
  IF value = JUndef THEN defaultValue
  ELSE LET parsed == parseInt(value.s)
       IN IF parsed.nan THEN defaultValue ELSE parsed.n

\* config.port of a process started with this value of PORT
port(PORT) == parseNumber(PORT, 3000)

\* config.cacheEnabled of a process started in environment env
cacheEnabled(env) == parseBoolean(env.CACHE_ENABLED, TRUE)

\* process.env.CACHE_ENABLED: unset, or what the deployment passes
Environments == {[CACHE_ENABLED |-> v] : v \in {JUndef, JStr("true"), JStr("false")}}

InitConfig ==
  /\ InitState
  /\ scope \in {[family |-> "config", budget |-> MaxConfigCalls, env |-> e] :
                  e \in Environments}

SpecConfig == InitConfig /\ [][Next]_vars

\* C27: in a process started with CACHE_ENABLED=false no fetch result is served
\* from the cache and none is written to it.
C27_DisabledCacheIsUnused ==
  ~cacheEnabled(scope.env) =>
    /\ cache = EmptyMap
    /\ last.op = "tools/call" => last.writes = 0 /\ ~Truthy(last.read.data)

---------------------------------------------------------------------------
(* Start-up of `node build/index.js` and the stdio transport.  The module   *)
(* body of index.ts runs once: it connects a StdioServerTransport only when *)
(* MCP_STANDALONE is "1", and starts the HTTP server when PORT or the       *)
(* configured port is truthy.  A client writes                              *)
(* JSON-RPC requests, one per line, to the standard input of the process.   *)

MaxStdioRequests == 3

\* process.env.MCP_STANDALONE: unset, "1", or another way of saying yes
StandaloneValues == {JUndef, JStr("1"), JStr("true")}

\* the methods of the requests a client writes
StdioMethods == {"initialize", "tools/list", "ping"}

\* if (process.env.MCP_STANDALONE === "1")
standalone(env) == env = JStr("1")

\* process.env.PORT: unset, a port number, or text that is no number
PortValues == {JUndef, JStr("8080"), JStr("")}

\* if (process.env.PORT || config.port)
httpServerMode(PORT) == Truthy(PORT) \/ Truthy(JNum(port(PORT)))

\* what the server connected to the transport answers to a request: the server's
\* description, the names of the registered tools, or an empty result
StdioResult(request) ==
  [id |-> request.id,
   result |-> CASE request.method = "initialize" -> <<"f1-mcp-server", "1.0.0">>
                [] request.method = "tools/list" -> registerAllTools
                [] OTHER -> <<>>]

\* the module body of index.ts, run once at start-up
Bootstrap ==
  /\ stdio.pc = "start"
  /\ stdio' = [stdio EXCEPT !.pc = "running",
                            !.connected = standalone(stdio.env),
                            !.listening = httpServerMode(stdio.PORT)]
  /\ UNCHANGED <<now, ticks, cache, calls, ncalls, last, sent, scope, mqtt, shutdown,
                 tokenCache, liveDataStore, authCall, aggregate>>

\* the client writes a request line to the standard input of the process
ClientWrites(method) ==
  /\ stdio.pc \in {"start", "running"}
  /\ Len(stdio.requests) < MaxStdioRequests
  /\ stdio' = [stdio EXCEPT !.requests = Append(@, [id |-> Len(@) + 1, method |-> method])]
  /\ UNCHANGED <<now, ticks, cache, calls, ncalls, last, sent, scope, mqtt, shutdown,
                 tokenCache, liveDataStore, authCall, aggregate>>

\* the connected transport reads the next line and the server writes its answer to
\* the standard output
StdioAnswers ==
  /\ stdio.connected
  /\ stdio.taken < Len(stdio.requests)
  /\ stdio' = [stdio EXCEPT !.taken = @ + 1,
                            !.stdout = Append(@, StdioResult(stdio.requests[stdio.taken + 1]))]
  /\ UNCHANGED <<now, ticks, cache, calls, ncalls, last, sent, scope, mqtt, shutdown,
                 tokenCache, liveDataStore, authCall, aggregate>>

InitStdio ==
  /\ now = StartTime /\ ticks = 0 /\ cache = EmptyMap /\ calls = EmptyBag
  /\ ncalls = 0 /\ last = NoTurn /\ sent = 0
  /\ tokenCache = JNull /\ liveDataStore = EmptyLiveData
  /\ authCall = NoAuthCall /\ aggregate = NoAggregate /\ shutdown = NoShutdown
  /\ mqtt = NoMqtt
  /\ scope = [family |-> "stdio", budget |-> 0]
  /\ stdio \in {[NoStdio EXCEPT !.env = v, !.PORT = p, !.pc = "start"] :
                  v \in StandaloneValues, p \in PortValues}

NextStdio ==
  \/ Bootstrap
  \/ \E method \in StdioMethods : ClientWrites(method)
  \/ StdioAnswers

\* The module body runs when the process starts, and the event loop delivers every
\* line that a connected transport can read.
SpecStdio ==
  /\ InitStdio
  /\ [][NextStdio]_vars
  /\ WF_vars(Bootstrap)
  /\ WF_vars(StdioAnswers)

\* the client has written a request of this method / the process has written the
\* result of such a request to its standard output
Written(method) == \E i \in 1..Len(stdio.requests) : stdio.requests[i].method = method
Answered(method) ==
  \E i \in 1..Len(stdio.requests) :
    /\ stdio.requests[i].method = method
    /\ \E j \in 1..Len(stdio.stdout) : stdio.stdout[j] = StdioResult(stdio.requests[i])

\* C28: a process started with no MCP_STANDALONE in its environment eventually
\* answers, on its standard output, an initialize request written to its standard
\* input, and then a tools/list request.
C28_StdioAnswersWithoutStandalone ==
  /\ (stdio.env = JUndef /\ Written("initialize")) ~> Answered("initialize")
  /\ (stdio.env = JUndef /\ Answered("initialize") /\ Written("tools/list"))
       ~> Answered("tools/list")

---------------------------------------------------------------------------
(* Claims on the session status tool and on the streaming tools *)

\* JSON.parse(s) returns an array
ParsesToArray(s) == JSONparses(s) /\ Ch(s, SkipWs(s, 1)) = "["

\* C29: the text that getCurrentSessionStatus returns parses to a JSON array, and to
\* the empty array when no session is active (the upstream answers 422).
C29_SessionStatusIsArray ==
  (last.op = "tools/call" /\ last.name = "getCurrentSessionStatus"
   /\ last.resp.kind = "result" /\ ~last.resp.isError) =>
    /\ Len(last.resp.content) = 1
    /\ last.resp.content[1].text.t = "str"
    /\ ParsesToArray(last.resp.content[1].text.s)
    /\ (last.gets = 1 /\ last.answer = Failure(JNum(422))) =>
         last.resp.content[1].text.s = "[]"

\* C30: getStreamingStatus is a registered tool: a call of it reaches a handler, not
\* the unknown-tool outcome, and returns an object with a boolean `enabled` field.
C30_StreamingStatusRegistered ==
  (last.op = "tools/call" /\ last.name = "getStreamingStatus") =>
    /\ last.called
    /\ last.resp.kind = "result" /\ ~last.resp.isError
    /\ Len(last.resp.content) = 1
    /\ last.resp.content[1].text.t = "str"
    /\ JSONparses(last.resp.content[1].text.s)
    /\ \/ Includes(last.resp.content[1].text.s, "\"enabled\":true")
       \/ Includes(last.resp.content[1].text.s, "\"enabled\":false")

---------------------------------------------------------------------------
(* Claims on concurrency of the cache, on the two dispatch paths and on     *)
(* the life of a cache entry                                                *)

\* C31: after clearCache has completed, a fetch whose upstream request was issued
\* before it does not repopulate the cache, so that no later hit returns its body:
\* the call that resumes after the clear writes no entry, and the key of its URL
\* holds no entry with the body it received.
C31_ClearedFetchDoesNotRepopulate ==
  (last.op = "tools/call" /\ last.gets = 1 /\ last.cleared) =>
    /\ last.writes = 0
    /\ ~(last.key \in DOMAIN cache /\ last.answer.ok
         /\ cache[last.key].data = last.answer.body)

\* C32: for a tool of both dispatch paths, the same arguments and the same outcome
\* of the data service give the same content text on the McpServer and on the HTTP
\* endpoint, or an error on both.
C32_SameTextOnBothPaths ==
  (last.op = "tools/call" /\ last.called
   /\ last.name \in Range(registerAllTools) \cap toolsCallCases) =>
    LET mcp == Respond("mcp", last.name, last.svc)
        http == Respond("http", last.name, last.svc)
    IN \/ mcp.isError /\ http.isError
       \/ ~mcp.isError /\ ~http.isError /\ mcp.content = http.content

\* C33: a read of the cache never changes an entry: every entry left after a turn
\* that only reads is as it was before, expiresAt included, and a hit is served
\* only up to the expiresAt that the write gave the entry, however often the entry
\* has been read since.
C33_Step ==
  (last' # last /\ last'.op \in {"tools/call", "await"}
   /\ last'.reads = 1 /\ last'.writes = 0) =>
    /\ \A k \in DOMAIN cache' : k \in DOMAIN cache /\ cache'[k] = cache[k]
    /\ (last'.gets = 0 /\ last'.read.present /\ Truthy(last'.read.data)) =>
         /\ last'.read.at <= last'.read.expiresAt
         /\ cache'[last'.key].expiresAt = last'.read.expiresAt

C33_ReadKeepsExpiry == [][C33_Step]_vars

\* the third request of a behaviour is served from the cache after the clock has
\* advanced, and the entry still expires when its write said
C33_Witness ==
  /\ last.op = "tools/call" /\ last.gets = 0 /\ last.reads = 1
  /\ last.read.present /\ Truthy(last.read.data)
  /\ ncalls = 3 /\ now > StartTime
  /\ cache[last.key].expiresAt = last.read.expiresAt

---------------------------------------------------------------------------
(* Claims on the start-up and the shutdown of the process *)

\* C34: the HTTP server is started only when the PORT environment variable is
\* provided: a process started with PORT unset opens no HTTP listener.
C34_ListensOnlyWithPort ==
  stdio.listening => stdio.PORT # JUndef

---------------------------------------------------------------------------
(* Graceful shutdown: setupGracefulShutdown(server) registers one routine    *)
(* for SIGTERM, SIGINT, uncaughtException and unhandledRejection.  The      *)
(* routine has no await: it runs to process.exit within the turn of the     *)
(* event that started it.  The close callback of the server and the forced- *)
(* shutdown timer would need a later turn of the event loop.                *)

MaxShutdownRequests == 3
MaxSignals == 2

ShutdownEvents == {"SIGTERM", "SIGINT", "uncaughtException", "unhandledRejection"}

\* (a faulty variant of shutdownRoutine: the cleanup does not end with process.exit)
shutdownRoutine_returns(s, signal, threw) ==
  IF s.shutdownInProgress THEN s
  ELSE [s EXCEPT !.shutdownInProgress = TRUE, !.signal = signal,
                 !.server = "closing",
                 !.cleanups = @ + 1, !.threw = threw,
                 !.timer = "armed"]

\* shutdown(signal); threw: rateLimiter.destroy() has thrown.  The setTimeout that
\* follows the try statement is never reached: both branches call process.exit
shutdownRoutine(s, signal, threw) ==
  IF s.shutdownInProgress THEN s
  ELSE [s EXCEPT !.shutdownInProgress = TRUE, !.signal = signal,
                 !.server = "closing",
                 !.cleanups = @ + 1, !.threw = threw,
                 !.exit = IF threw THEN "1" ELSE "0"]

\* a request arrives at the listening server
RequestArrives ==
  /\ shutdown.exit = "none" /\ shutdown.server = "listening"
  /\ shutdown.arrived < MaxShutdownRequests
  /\ shutdown' = [shutdown EXCEPT !.arrived = @ + 1]
  /\ UNCHANGED <<now, ticks, cache, calls, ncalls, last, sent, scope, mqtt,
                 tokenCache, liveDataStore, authCall, aggregate, stdio>>

\* a request in flight is answered
RequestAnswered ==
  /\ shutdown.exit = "none"
  /\ shutdown.answered < shutdown.arrived
  /\ shutdown' = [shutdown EXCEPT !.answered = @ + 1]
  /\ UNCHANGED <<now, ticks, cache, calls, ncalls, last, sent, scope, mqtt,
                 tokenCache, liveDataStore, authCall, aggregate, stdio>>

\* a signal or an uncaught error is raised; a process that has exited handles nothing
ShutdownEvent(signal, threw) ==
  /\ shutdown.signals < MaxSignals
  /\ shutdown' = IF shutdown.exit = "none"
                 THEN [shutdownRoutine(shutdown, signal, threw) EXCEPT !.signals = @ + 1]
                 ELSE [shutdown EXCEPT !.signals = @ + 1]
  /\ UNCHANGED <<now, ticks, cache, calls, ncalls, last, sent, scope, mqtt,
                 tokenCache, liveDataStore, authCall, aggregate, stdio>>

InitShutdown ==
  /\ InitState
  /\ scope = [family |-> "shutdown", budget |-> 0]

NextShutdown ==
  \/ RequestArrives
  \/ RequestAnswered
  \/ \E signal \in ShutdownEvents : \E threw \in BOOLEAN : ShutdownEvent(signal, threw)

SpecShutdown == InitShutdown /\ [][NextShutdown]_vars

\* C35: the shutdown routine runs its cleanup at most once however many signals and
\* uncaught errors arrive, and a shutdown that has started has ended with the exit
\* of the process: with code 0 when the cleanup succeeded, with code 1 when it threw.
C35_CleanupOnceThenExit ==
  /\ shutdown.cleanups <= 1
  /\ shutdown.shutdownInProgress =>
       /\ shutdown.cleanups = 1
       /\ shutdown.exit = IF shutdown.threw THEN "1" ELSE "0"
  /\ shutdown.exit # "none" => shutdown.shutdownInProgress

\* two events have been raised, the cleanup of the first threw, and the process has
\* exited with code 1 after one cleanup
C35_Witness ==
  /\ shutdown.signals = 2 /\ shutdown.threw
  /\ shutdown.cleanups = 1 /\ shutdown.exit = "1"

\* C36: on a shutdown signal the process exits only after the HTTP server has
\* finished closing (its close callback has run, so that the requests in flight were
\* answered), or at the latest when the forced-shutdown timer fires.
C36_ExitAfterServerClosed ==
  shutdown.exit # "none" =>
    \/ shutdown.server = "closed" /\ shutdown.answered = shutdown.arrived
    \/ shutdown.timer = "fired"

---------------------------------------------------------------------------
(* The middleware chain of the HTTP server, up to the route handlers.  A    *)
(* behaviour of SpecAuth runs in a process with one configuration; each      *)
(* request passes body validation, CORS, the rate limiter and the API key   *)
(* check in the order of app.use, and is answered by the first that does    *)
(* not call next().                                                         *)

MaxAuthRequests == 1

\* apiKeyRequired, apiKeys and enableCors as loadConfig leaves them
AuthConfigs ==
  {[apiKeyRequired |-> r, apiKeys |-> ks, enableCors |-> c] :
     r \in BOOLEAN, ks \in {<<>>, <<"k1", "k2">>}, c \in BOOLEAN}

\* requests: suspicious is what the patterns of validateBodyMiddleware find in the
\* body, limited what the rate limiter decides
HttpRequests ==
  {[method |-> m, path |-> p, apiKey |-> k, suspicious |-> s, limited |-> l] :
     m \in {"GET", "POST", "OPTIONS"},
     p \in {"/health", "/health/ready", "/.well-known/mcp-config", "/mcp/v1", "/metrics"},
     k \in {JUndef, JStr(""), JStr("k2"), JStr("k3")},
     s \in BOOLEAN, l \in BOOLEAN}

Responds(status, by) == [next |-> FALSE, status |-> status, by |-> by]
CallsNext == [next |-> TRUE, status |-> 0, by |-> ""]

\* (a faulty variant of authMiddleware: any key that is present is accepted)
authMiddleware_anyKey(cfg, req) ==
  IF ~cfg.apiKeyRequired THEN CallsNext
  ELSE IF ~Truthy(req.apiKey) THEN Responds(401, "authMiddleware")
  ELSE CallsNext

authMiddleware(cfg, req) ==
  IF ~cfg.apiKeyRequired THEN CallsNext
  ELSE IF ~Truthy(req.apiKey) THEN Responds(401, "authMiddleware")
  ELSE IF req.apiKey.s \notin Range(cfg.apiKeys) THEN Responds(403, "authMiddleware")
  ELSE CallsNext

\* the wrapper that skips the check for health and well-known endpoints
authWiring(cfg, req) ==
  IF StartsWith(req.path, "/health") \/ StartsWith(req.path, "/.well-known")
  THEN CallsNext
  ELSE authMiddleware(cfg, req)

\* the route that matches, or the 404 handler
routeHandler(req) ==
  CASE req.method = "GET" /\ req.path \in {"/health", "/health/ready"} -> "health"
    [] req.method = "GET" /\ req.path = "/.well-known/mcp-config" -> "mcp-config"
    [] req.method = "POST" /\ req.path = "/mcp/v1" -> "mcp"
    [] OTHER -> "notFound"

\* the chain of app.use in its order; handler is the route handler reached, if any
middlewareChain(cfg, req) ==
  LET auth == authWiring(cfg, req)
  IN IF req.suspicious
     THEN [status |-> 400, by |-> "validateBodyMiddleware", handler |-> "none"]
     ELSE IF cfg.enableCors /\ req.method = "OPTIONS"
     THEN [status |-> 200, by |-> "cors", handler |-> "none"]
     ELSE IF req.limited
     THEN [status |-> 429, by |-> "rateLimitMiddleware", handler |-> "none"]
     ELSE IF ~auth.next
     THEN [status |-> auth.status, by |-> auth.by, handler |-> "none"]
     ELSE [status |-> IF routeHandler(req) = "notFound" THEN 404 ELSE 200,
           by |-> "handler", handler |-> routeHandler(req)]

\* a request is received and answered
HttpRequest(req) ==
  /\ last = NoTurn
  /\ ncalls < scope.budget
  /\ ncalls' = ncalls + 1
  /\ sent' = sent + 1
  /\ last' = [op |-> "http", request |-> req,
              answer |-> middlewareChain(scope.config, req)]
  /\ UNCHANGED <<now, ticks, cache, calls, scope, dormant>>

InitAuth ==
  /\ InitState
  /\ scope \in {[family |-> "auth", budget |-> MaxAuthRequests, config |-> c] :
                  c \in AuthConfigs}

NextAuth ==
  \/ \E req \in HttpRequests : HttpRequest(req)
  \/ TurnEnds

SpecAuth == InitAuth /\ [][NextAuth]_vars

---------------------------------------------------------------------------
(* OpenF1StreamService: connect(), the events of its MQTT clients,          *)
(* subscribe() and the disconnect() that the reconnect handler starts.      *)
(* Every client made by mqtt.connect keeps the handlers of                  *)
(* setupEventHandlers, which act on the one service object, and reconnects  *)
(* on its own (reconnectPeriod) until end() is called on it.                *)

MaxConnectCalls == 3
MaxMqttClients == 2
MaxReconnects == 6
MAX_RECONNECT_ATTEMPTS == 5

MqttTopics == {"v1/weather"}

\* the unchanged rest of the state in a step of the stream service
StreamOnly ==
  UNCHANGED <<now, ticks, cache, calls, ncalls, last, sent, scope,
              tokenCache, liveDataStore, authCall, aggregate, stdio, shutdown>>

\* connect() up to its first await
connect_begin(s, enabled) ==
  IF ~enabled THEN [s EXCEPT !.returned = "rejected"]
  ELSE IF s.isConnected THEN [s EXCEPT !.returned = "resolved"]
  ELSE IF s.isConnecting THEN [s EXCEPT !.returned = "resolved"]
  ELSE [s EXCEPT !.isConnecting = TRUE, !.pc = "token", !.returned = "none"]

\* the catch block of connect()
connect_catch(s) ==
  [s EXCEPT !.isConnecting = FALSE, !.isConnected = FALSE, !.pc = "idle",
            !.waiting = 0, !.returned = "rejected"]

\* connect() after `await this.waitForConnection()`
connect_end(s) ==
  [s EXCEPT !.isConnected = TRUE, !.isConnecting = FALSE, !.reconnectAttempts = 0,
            !.pc = "idle", !.waiting = 0, !.returned = "resolved"]

\* disconnect() up to the callback of end(): nothing without a client
disconnect_begin(s) ==
  IF s.mqttClient = 0 THEN s
  ELSE [s EXCEPT !.clients[s.mqttClient] = IF @ = "ended" THEN @ ELSE "ending"]

\* the handler of 'reconnect'
onReconnect(s) ==
  LET counted == [s EXCEPT !.reconnectAttempts = @ + 1]
  IN IF counted.reconnectAttempts >= MAX_RECONNECT_ATTEMPTS
     THEN disconnect_begin(counted)
     ELSE counted

\* a call of connect()
Connect ==
  /\ mqtt.nconnects < MaxConnectCalls
  /\ mqtt' = [connect_begin(mqtt, scope.enabled) EXCEPT !.nconnects = @ + 1,
                                                        !.gaveUp = FALSE]
  /\ StreamOnly /\ UNCHANGED tokenCache

\* openf1Auth.getAccessToken() settles: with a token the client is made and the
\* call waits for its connection, without one the call fails
AccessTokenSettles(ok) ==
  /\ mqtt.pc = "token"
  /\ ok => Len(mqtt.clients) < MaxMqttClients
  /\ mqtt' = IF ok
             THEN [mqtt EXCEPT !.clients = Append(@, "connecting"),
                               !.mqttClient = Len(mqtt.clients) + 1,
                               !.waiting = Len(mqtt.clients) + 1,
                               !.pc = "wait", !.returned = "none"]
             ELSE connect_catch(mqtt)
  /\ StreamOnly

\* client c emits 'connect'
ClientConnects(c) ==
  /\ mqtt.clients[c] = "connecting"
  /\ LET on == [mqtt EXCEPT !.clients[c] = "connected", !.isConnected = TRUE,
                           !.reconnectAttempts = 0, !.returned = "none"]
     IN mqtt' = IF mqtt.pc = "wait" /\ mqtt.waiting = c THEN connect_end(on) ELSE on
  /\ StreamOnly

\* client c fails to connect: it emits 'error', then 'close'; unauthorized: the
\* message of the error names a 401
ClientErrors(c, unauthorized) ==
  /\ mqtt.clients[c] = "connecting"
  /\ LET on == [mqtt EXCEPT !.clients[c] = "offline", !.isConnected = FALSE,
                           !.returned = "none"]
     IN mqtt' = IF mqtt.pc = "wait" /\ mqtt.waiting = c THEN connect_catch(on) ELSE on
  /\ tokenCache' = IF unauthorized THEN invalidateToken(tokenCache) ELSE tokenCache
  /\ UNCHANGED <<now, ticks, cache, calls, ncalls, last, sent, scope,
                 liveDataStore, authCall, aggregate, stdio, shutdown>>

\* the timer of waitForConnection fires
ConnectTimesOut ==
  /\ mqtt.pc = "wait"
  /\ mqtt' = connect_catch(mqtt)
  /\ StreamOnly

\* the connection of client c is lost: it emits 'close' and 'offline'
ClientCloses(c) ==
  /\ mqtt.clients[c] = "connected"
  /\ mqtt' = [mqtt EXCEPT !.clients[c] = "offline", !.isConnected = FALSE,
                          !.returned = "none"]
  /\ StreamOnly

\* client c starts another attempt and emits 'reconnect'
ClientReconnects(c) ==
  /\ mqtt.clients[c] = "offline"
  /\ mqtt.reconnectAttempts < MaxReconnects
  /\ mqtt' = [onReconnect([mqtt EXCEPT !.clients[c] = "connecting"])
                EXCEPT !.returned = "none"]
  /\ StreamOnly

\* the callback of end() on client c
DisconnectCompletes(c) ==
  /\ mqtt.clients[c] = "ending"
  /\ mqtt' = [mqtt EXCEPT !.clients[c] = "ended", !.isConnected = FALSE,
                          !.mqttClient = 0, !.subscribedTopics = {},
                          !.dataHandlers = {}, !.gaveUp = TRUE, !.returned = "none"]
  /\ StreamOnly

\* subscribe(topic, handler), with the callback of the client's subscribe
Subscribe(topic) ==
  /\ mqtt.isConnected /\ mqtt.mqttClient # 0
  /\ mqtt.clients[mqtt.mqttClient] = "connected"
  /\ topic \notin mqtt.subscribedTopics
  /\ mqtt' = [mqtt EXCEPT !.subscribedTopics = @ \cup {topic},
                          !.dataHandlers = @ \cup {topic}, !.returned = "none"]
  /\ StreamOnly

InitMqtt ==
  /\ InitState
  /\ scope \in {[family |-> "mqtt", budget |-> 0, enabled |-> e] : e \in BOOLEAN}

NextMqtt ==
  \/ Connect
  \/ \E ok \in BOOLEAN : AccessTokenSettles(ok)
  \/ ConnectTimesOut
  \/ \E c \in 1..Len(mqtt.clients) : ClientConnects(c)
  \/ \E c \in 1..Len(mqtt.clients), unauthorized \in BOOLEAN : ClientErrors(c, unauthorized)
  \/ \E c \in 1..Len(mqtt.clients) : ClientCloses(c)
  \/ \E c \in 1..Len(mqtt.clients) : ClientReconnects(c)
  \/ \E c \in 1..Len(mqtt.clients) : DisconnectCompletes(c)
  \/ \E topic \in MqttTopics : Subscribe(topic)

SpecMqtt == InitMqtt /\ [][NextMqtt]_vars

---------------------------------------------------------------------------
(* Claims on the stream service *)

\* C38: whenever a call of connect() resolves, the service is connected: isActive()
\* is true and subscribe() is accepted; also when the call was made while another
\* connect() was in progress.
C38_ResolvedMeansConnected ==
  mqtt.returned = "resolved" => mqtt.isConnected /\ mqtt.mqttClient # 0

\* C39: reconnectAttempts never exceeds MAX_RECONNECT_ATTEMPTS, a connect resets it
\* to 0, and once the service has given up after 5 reconnect events it is left with
\* isConnected false, no subscribed topic and no handler, and no client that makes
\* a further reconnect attempt.
C39_ReconnectAttemptsBounded ==
  /\ mqtt.reconnectAttempts <= MAX_RECONNECT_ATTEMPTS
  /\ mqtt.gaveUp =>
       /\ ~mqtt.isConnected
       /\ mqtt.subscribedTopics = {} /\ mqtt.dataHandlers = {}
       /\ \A c \in 1..Len(mqtt.clients) : mqtt.clients[c] = "ended"

=============================================================================
